---- MODULE Spec2Model ----
(***************************************************************************)
(* QuarmAnnounce: the debounced timer scheduler of LogMonitor               *)
(* (packages/monitor), the announcement pipeline of TtsEngine               *)
(* (packages/audio), the start/stop commands of the Tauri shell and the     *)
(* batch reader process_one_batch.                                          *)
(*                                                                         *)
(* Tokio tasks are modelled at the granularity of one poll: a task is       *)
(* always at an await point, JoinHandle::abort drops its future there.      *)
(* The first poll of a task is taken together with its spawn. Closures      *)
(* given to spawn_blocking run on their own threads and are not stopped by  *)
(* dropping the future that awaits them.                                    *)
(*                                                                         *)
(* Spec        the monitoring session: batches are dispatched, timers are   *)
(*             scheduled and replaced, sessions are started and stopped;    *)
(*             the engine was precached at startup.                         *)
(* EngineSpec  the TtsEngine alone: announce, precache and the abort of a   *)
(*             task that is inside announce.                                *)
(* BatchSpec   process_one_batch reading the lines a writer appends to the  *)
(*             active log file, under a configuration chosen at the start.  *)
(***************************************************************************)
EXTENDS Integers, Sequences, FiniteSets, TLC

\* ---------------------------------------------------------------- bounds
MaxTasks == 3
MaxTime == 2
MaxSessions == 2
MaxPrecache == 2
MaxDelay == 1
MaxLines == 3
MaxLineLen == 2
MaxMatchLen == 3
MaxEntries == 3
MaxMtime == 2
MaxFileLines == 2
MaxStream == 4
MaxConcurrent == 2
MaxCmds == 4
MaxMonitors == 3

Keys == {"p1", "p2"}
Texts == {"A", "B"}
Delays == 1..MaxDelay
PrecacheInputs == {<<"A">>, <<"A", "B">>}

TaskIds == 1..MaxTasks
\* owner mark of the synthesizer mutex while precache's closure holds it
PrecacheOwner == MaxTasks + 1

VARIABLES
    now,              \* tokio clock, in seconds
    running,          \* a monitoring task (a LogMonitor) is alive
    sessions,         \* number of LogMonitor values created so far
    active_timers,    \* LogMonitor.active_timers: pattern -> task id, 0 = no entry
    tasks,            \* the spawned announcement tasks and their blocking closures
    ntasks,           \* number of tasks spawned so far
    audio_semaphore,  \* TtsEngine.audio_semaphore: available permits
    synthesizer,      \* TtsEngine.synthesizer: owner of the mutex, 0 = free
    audio_cache,      \* TtsEngine.audio_cache of the engine held by the shell
    monitor_cache,    \* audio_cache of the clone owned by the live LogMonitor
    pre,              \* the running precache call
    npre,             \* number of precache calls so far
    hist,             \* history of each task (not program state)
    lastSched         \* history: time of the last schedule call per pattern in
                      \* the current session, -1 = none

\* the batch reader
VARIABLES
    messages,         \* LogMonitor.messages: the configured rules, in order
    file,             \* the lines appended to the active file since it was opened
    pos,              \* number of lines the reader has consumed
    rd,               \* "idle": no call in progress, "batching": inside the loop
    immediate_set,    \* the HashSet of process_one_batch, in iteration order
    timed_delay,      \* the HashMap of process_one_batch: pattern -> <<text, delay>>
    batch,            \* what the last call returned: None (some = FALSE) or Some
    seen,             \* history: the lines read by the last call
    match_ret         \* the last call of match_message: its line and the Vec it
                      \* returned

pipeVars == <<now, running, sessions, active_timers, tasks, ntasks, audio_semaphore,
              synthesizer, audio_cache, monitor_cache, pre, npre, hist, lastSched>>
\* the file selector
VARIABLES
    dir,              \* the game directory: its entries in the order read_dir
                      \* yields them
    found,            \* what the last call of find_most_recent_log returned
    lens,             \* the number of lines in each file
    mon               \* the monitoring loop of start_monitoring: where it stands
                      \* (pc), log_path, the position of its reader in lines
                      \* (offset), last_mtime_check, the end of its 1 s sleep
                      \* (wake); history: the length of the file when it was
                      \* opened (open_len), the error it returned (err), the time
                      \* of its last scan (scan_at), the scans made since the
                      \* file was opened (inner), the files opened so far
                      \* (opens), the file that was open before (prev)

\* the reader of bytes, and the shell of the application
VARIABLES
    tail,             \* the open log as bytes: what the game has written
                      \* (stream), how far the reader has consumed it (consumed),
                      \* where process_one_batch stands (pc); history: the
                      \* strings given to match_message (passed)
    app               \* AppState: is_monitoring, monitor_handle, config and
                      \* tts_engine (loaded or not); the monitoring tasks spawned
                      \* so far (monitors, spawned); the commands in progress (cmds)
                      \* and the number of commands invoked (ncmds)

scanVars == <<dir, found, lens, mon>>
shellVars == <<tail, app>>
batchVars == <<messages, file, pos, rd, immediate_set, timed_delay, batch, seen,
               match_ret, scanVars, shellVars>>
vars == <<pipeVars, batchVars>>

NoTask == [kind |-> "free", pc |-> "none", job |-> "none", text |-> "-",
           due |-> 0, cache |-> {}]
\* history of a task: the session and pattern it was scheduled for, its delay
\* while it sleeps, whether announce was invoked (fired), whether a later
\* schedule or an abort met it asleep or inside announce (cut), whether its
\* session was stopped while it slept (orph), whether its play_audio returned Ok
\* (played), which of its closures returned Err (err: "synth", "play" or "none")
NoHist == [sess |-> 0, key |-> "-", delay |-> 0, fired |-> FALSE, cut |-> "none",
           orph |-> FALSE, played |-> FALSE, err |-> "none"]
\* precache: where the call stands, the texts it was given, those its closure
\* has still to synthesize, the map the closure has built, and what the last call
\* returned
PreIdle == [pc |-> "idle", texts |-> <<>>, todo |-> <<>>, map |-> {}, ret |-> "none"]

Terminal == {"done", "failed", "aborted"}

\* the part of the state that dispatching a batch rewrites
World == [tasks |-> tasks, active_timers |-> active_timers, ntasks |-> ntasks,
          audio_semaphore |-> audio_semaphore, hist |-> hist,
          lastSched |-> lastSched]

\* ------------------------------------------------------- scheduler (monitor)

\* variant: the cache is not consulted, every call synthesizes
AnnounceAlwaysSynth(tk) ==
    [tk EXCEPT !.pc = "await_synth", !.job = "synth_wait"]

\* TtsEngine::announce, step 1: the cache lookup; a miss hands the synthesis to
\* spawn_blocking
AnnounceEnter(tk) ==
    IF tk.text \in tk.cache
    THEN [tk EXCEPT !.pc = "await_permit"]
    ELSE [tk EXCEPT !.pc = "await_synth", !.job = "synth_wait"]

\* variant: the handle is dropped, which detaches the task, instead of aborted
AbortDetach(w, t) == w

\* variant: abort also marks a task that has finished
AbortAny(w, t) ==
    [w EXCEPT !.tasks[t].pc = "aborted",
              !.tasks[t].due = 0,
              !.hist[t].delay = 0,
              !.hist[t].played = FALSE]

\* JoinHandle::abort on task t: a task that has finished is left alone; any other
\* task is dropped at its await point, and dropping the future drops the
\* SemaphorePermit it holds. The spawn_blocking closure (job) is not touched.
Abort(w, t) ==
    LET tk == w.tasks[t] IN
    IF tk.pc \in Terminal THEN w
    ELSE [w EXCEPT !.tasks[t].pc = "aborted",
                   !.tasks[t].due = 0,
                   !.hist[t].delay = 0,
                   !.tasks[t].job = IF @ \in {"synth_wait", "synth_run", "play_run"}
                                    THEN @ ELSE "none",
                   !.audio_semaphore = IF tk.pc = "await_play" THEN @ + 1 ELSE @]

\* history: where the task stood when its handle was aborted
MarkCut(w, t) ==
    IF w.tasks[t].pc \in Terminal THEN w
    ELSE [w EXCEPT !.hist[t].cut = IF w.tasks[t].pc = "sleep"
                                   THEN "asleep" ELSE "midflight"]

\* tokio::spawn of an announcement task on a clone of the engine: an immediate
\* task calls announce, a timer task sleeps first
Spawn(w, kind, text, delay, key, cache) ==
    LET t == w.ntasks + 1
        tk == [kind |-> kind, pc |-> "sleep", job |-> "none", text |-> text,
               due |-> now + delay, cache |-> cache]
    IN [w EXCEPT !.ntasks = t,
                 !.tasks[t] = IF kind = "timer" THEN tk
                              ELSE AnnounceEnter([tk EXCEPT !.due = 0]),
                 !.hist[t] = [NoHist EXCEPT !.sess = sessions, !.key = key,
                                            !.delay = delay,
                                            !.fired = (kind # "timer")]]

\* variant: the new handle overwrites the entry, the old timer is not cancelled
ScheduleKeepsOld(w, pattern, announcement, delay_seconds) ==
    LET w2 == Spawn(w, "timer", announcement, delay_seconds, pattern, monitor_cache)
    IN [w2 EXCEPT !.active_timers[pattern] = w2.ntasks,
                  !.lastSched[pattern] = now]

\* variant: the old entry is removed from the map but its handle is not aborted
ScheduleDropsHandle(w, pattern, announcement, delay_seconds) ==
    LET old == w.active_timers[pattern]
        w1 == IF old # 0
              THEN MarkCut([w EXCEPT !.active_timers[pattern] = 0], old)
              ELSE w
        w2 == Spawn(w1, "timer", announcement, delay_seconds, pattern, monitor_cache)
    IN [w2 EXCEPT !.active_timers[pattern] = w2.ntasks,
                  !.lastSched[pattern] = now]

\* variant: every entry of the registry is cancelled, not only the pattern's
ScheduleAbortsAll(w, pattern, announcement, delay_seconds) ==
    LET drop(v, k) == IF v.active_timers[k] = 0 THEN v
                      ELSE Abort(MarkCut([v EXCEPT !.active_timers[k] = 0],
                                         v.active_timers[k]), v.active_timers[k])
        w1 == drop(drop(w, "p1"), "p2")
        w2 == Spawn(w1, "timer", announcement, delay_seconds, pattern, monitor_cache)
    IN [w2 EXCEPT !.active_timers[pattern] = w2.ntasks,
                  !.lastSched[pattern] = now]

ScheduleTimedDelay(w, pattern, announcement, delay_seconds) ==
    LET old == w.active_timers[pattern]
        w1 == IF old # 0
              THEN Abort(MarkCut([w EXCEPT !.active_timers[pattern] = 0], old), old)
              ELSE w
        w2 == Spawn(w1, "timer", announcement, delay_seconds, pattern, monitor_cache)
    IN [w2 EXCEPT !.active_timers[pattern] = w2.ntasks,
                  !.lastSched[pattern] = now]

\* variant: a text whose announcement is still in progress is not announced
\* again
SpawnImmediateFresh(w, immediate) ==
    LET add(v, x) ==
            IF /\ x \in immediate
               /\ ~\E t \in TaskIds : /\ v.tasks[t].kind = "imm"
                                      /\ v.tasks[t].text = x
                                      /\ v.tasks[t].pc \notin Terminal
            THEN Spawn(v, "imm", x, 0, "-", monitor_cache)
            ELSE v
    IN add(add(w, "A"), "B")

\* variant: the for loop is left after the first announcement
SpawnImmediateOne(w, immediate) ==
    IF immediate = {} THEN w
    ELSE Spawn(w, "imm", CHOOSE x \in immediate : TRUE, 0, "-", monitor_cache)

\* `for announcement in batch_result.immediate { tokio::spawn(..) }`
RECURSIVE SpawnImmediate(_, _)
SpawnImmediate(w, immediate) ==
    IF immediate = {} THEN w
    ELSE LET a == CHOOSE x \in immediate : TRUE
         IN SpawnImmediate(Spawn(w, "imm", a, 0, "-", monitor_cache), immediate \ {a})

RECURSIVE ScheduleAll(_, _, _)
ScheduleAll(w, timed, todo) ==
    IF todo = {} THEN w
    ELSE LET k == CHOOSE x \in todo : TRUE
         IN ScheduleAll(ScheduleTimedDelay(w, k, timed[k][1], timed[k][2]),
                        timed, todo \ {k})

SetWorld(w) ==
    /\ tasks' = w.tasks
    /\ active_timers' = w.active_timers
    /\ ntasks' = w.ntasks
    /\ audio_semaphore' = w.audio_semaphore
    /\ hist' = w.hist
    /\ lastSched' = w.lastSched

\* the Some(batch_result) arm of the loop of start_monitoring
DispatchBatch(immediate, timed) ==
    /\ running
    /\ now < MaxTime
    /\ Cardinality(immediate) + Cardinality(DOMAIN timed) \in 1..(MaxTasks - ntasks)
    /\ SetWorld(ScheduleAll(SpawnImmediate(World, immediate), timed,
                            DOMAIN timed))
    /\ UNCHANGED <<now, running, sessions, synthesizer, audio_cache, monitor_cache,
                   pre, npre>>
    /\ UNCHANGED batchVars

\* commands::start_monitoring: LogMonitor::new(config, tts_engine.clone())
StartMonitoring ==
    /\ ~running
    /\ sessions < MaxSessions
    /\ running' = TRUE
    /\ sessions' = sessions + 1
    /\ active_timers' = [k \in Keys |-> 0]
    /\ monitor_cache' = audio_cache
    /\ lastSched' = [k \in Keys |-> -1]
    /\ UNCHANGED <<now, tasks, ntasks, audio_semaphore, synthesizer, audio_cache,
                   pre, npre, hist, lastSched>>
    /\ UNCHANGED batchVars

\* what stop_monitoring does to the timer tasks of the session: nothing. It aborts
\* the monitoring task only; the LogMonitor is dropped with its active_timers, and
\* a dropped JoinHandle detaches its task.
StopTimers(w) == w

\* commands::stop_monitoring
StopMonitoring ==
    /\ running
    /\ running' = FALSE
    /\ LET w == StopTimers(World)
       IN SetWorld([w EXCEPT
               !.active_timers = [k \in Keys |-> 0],
               !.hist = [t \in TaskIds |->
                          IF /\ w.tasks[t].pc = "sleep"
                             /\ w.hist[t].sess = sessions
                          THEN [w.hist[t] EXCEPT !.orph = TRUE]
                          ELSE w.hist[t]]])
    /\ UNCHANGED <<now, sessions, synthesizer, audio_cache, monitor_cache, pre, npre>>
    /\ UNCHANGED batchVars

\* ------------------------------------------------------------------ clock
TimeWanted ==
    \/ now < MaxTime
    \/ \E t \in TaskIds : tasks[t].pc = "sleep" /\ tasks[t].due > now

Tick ==
    /\ TimeWanted
    /\ now' = now + 1
    /\ UNCHANGED <<running, sessions, active_timers, tasks, ntasks, audio_semaphore,
                   synthesizer, audio_cache, monitor_cache, pre, npre, hist, lastSched>>
    /\ UNCHANGED batchVars

\* ------------------------------------------------------- announcement tasks

\* variant: the Sleep completes one second early
SleepElapsedEarly(tk) == now + 1 >= tk.due

\* tokio::time::sleep: the Sleep of a timer task completes no earlier than its
\* deadline
SleepElapsed(tk) == now >= tk.due

\* the Sleep of a timer task has elapsed: the task calls engine.announce
TimerExpire(t) ==
    /\ tasks[t].pc = "sleep"
    /\ SleepElapsed(tasks[t])
    /\ tasks' = [tasks EXCEPT ![t] = AnnounceEnter([@ EXCEPT !.due = 0])]
    /\ hist' = [hist EXCEPT ![t].delay = 0, ![t].fired = TRUE]
    /\ UNCHANGED <<now, running, sessions, active_timers, ntasks, audio_semaphore,
                   synthesizer, audio_cache, monitor_cache, pre, npre, lastSched>>
    /\ UNCHANGED batchVars

\* variant: the closure synthesizes without taking the mutex
CanLockAlways == TRUE

\* tokio::sync::Mutex::blocking_lock returns once the mutex is free
CanLock == synthesizer = 0

\* the synthesis closure: synth.blocking_lock()
JobLock(t) ==
    /\ tasks[t].job = "synth_wait"
    /\ CanLock
    /\ synthesizer' = t
    /\ tasks' = [tasks EXCEPT ![t].job = "synth_run"]
    /\ UNCHANGED <<now, running, sessions, active_timers, ntasks, audio_semaphore,
                   audio_cache, monitor_cache, pre, npre, hist, lastSched>>
    /\ UNCHANGED batchVars

\* the result of a closure: kept for the task that awaits its JoinHandle, dropped
\* when that task was aborted
JobResult(tk, result) == IF tk.pc = "aborted" THEN "none" ELSE result

\* variant: the guard of the synthesizer is kept until announce returns
JobSynthDoneKeepsGuard(t, ok) ==
    /\ tasks[t].job = "synth_run"
    /\ tasks' = [tasks EXCEPT ![t].job =
                    IF tasks[t].pc = "aborted" THEN "none"
                    ELSE IF ok THEN "synth_ok" ELSE "synth_err"]
    /\ hist' = [hist EXCEPT ![t].err = IF ok THEN "none" ELSE "synth"]
    /\ UNCHANGED <<now, running, sessions, active_timers, ntasks, audio_semaphore,
                   synthesizer, audio_cache, monitor_cache, pre, npre, lastSched>>
    /\ UNCHANGED batchVars

\* variant: the samples of an on-demand synthesis are written back to the cache
JobSynthDoneWritesBack(t, ok) ==
    /\ tasks[t].job = "synth_run"
    /\ synthesizer' = IF synthesizer = t THEN 0 ELSE synthesizer
    /\ tasks' = [tasks EXCEPT ![t].job =
                    IF tasks[t].pc = "aborted" THEN "none"
                    ELSE IF ok THEN "synth_ok" ELSE "synth_err"]
    /\ hist' = [hist EXCEPT ![t].err = IF ok THEN "none" ELSE "synth"]
    /\ audio_cache' = IF ok THEN audio_cache \cup {tasks[t].text} ELSE audio_cache
    /\ UNCHANGED <<now, running, sessions, active_timers, ntasks, audio_semaphore,
                   monitor_cache, pre, npre, lastSched>>
    /\ UNCHANGED batchVars

\* synthesize_audio returns; the guard is dropped with the closure
JobSynthDone(t, ok) ==
    /\ tasks[t].job = "synth_run"
    /\ synthesizer' = IF synthesizer = t THEN 0 ELSE synthesizer
    /\ tasks' = [tasks EXCEPT ![t].job =
                    JobResult(tasks[t], IF ok THEN "synth_ok" ELSE "synth_err")]
    /\ hist' = [hist EXCEPT ![t].err = IF ok THEN "none" ELSE "synth"]
    /\ UNCHANGED <<now, running, sessions, active_timers, ntasks, audio_semaphore,
                   audio_cache, monitor_cache, pre, npre, lastSched>>
    /\ UNCHANGED batchVars

\* variant: a failed synthesis is treated as empty audio, announce goes on
SynthResumeIgnoresErr(t) ==
    /\ tasks[t].pc = "await_synth"
    /\ tasks[t].job \in {"synth_ok", "synth_err"}
    /\ tasks' = [tasks EXCEPT ![t].pc = "await_permit", ![t].job = "none"]
    /\ UNCHANGED <<now, running, sessions, active_timers, ntasks, audio_semaphore,
                   synthesizer, audio_cache, monitor_cache, pre, npre, hist, lastSched>>
    /\ UNCHANGED batchVars

\* variant: the error of announce is propagated into the monitoring loop, which
\* ends
ErrStopsLoop(loop) == FALSE

\* `if let Err(e) = engine.announce(..).await { eprintln!(..) }` in the spawned
\* task: the error is logged there, the monitoring loop is not told
LogAndContinue(loop) == loop

\* the task resumes from the JoinHandle of the synthesis closure
SynthResume(t) ==
    /\ tasks[t].pc = "await_synth"
    /\ tasks[t].job \in {"synth_ok", "synth_err"}
    /\ tasks' = [tasks EXCEPT ![t].pc = IF tasks[t].job = "synth_ok"
                                        THEN "await_permit" ELSE "failed",
                              ![t].job = "none"]
    /\ running' = IF tasks[t].job = "synth_err" THEN LogAndContinue(running)
                  ELSE running
    /\ UNCHANGED <<now, sessions, active_timers, ntasks, audio_semaphore,
                   synthesizer, audio_cache, monitor_cache, pre, npre, hist, lastSched>>
    /\ UNCHANGED batchVars

\* step 2: audio_semaphore.acquire(), then step 3: spawn_blocking(play_audio)
AcquirePermit(t) ==
    /\ tasks[t].pc = "await_permit"
    /\ audio_semaphore > 0
    /\ audio_semaphore' = audio_semaphore - 1
    /\ tasks' = [tasks EXCEPT ![t].pc = "await_play", ![t].job = "play_run"]
    /\ UNCHANGED <<now, running, sessions, active_timers, ntasks, synthesizer,
                   audio_cache, monitor_cache, pre, npre, hist, lastSched>>
    /\ UNCHANGED batchVars

\* play_audio returns
JobPlayDone(t, ok) ==
    /\ tasks[t].job = "play_run"
    /\ tasks' = [tasks EXCEPT ![t].job =
                    JobResult(tasks[t], IF ok THEN "play_ok" ELSE "play_err")]
    /\ hist' = [hist EXCEPT ![t].played = ok, ![t].err = IF ok THEN "none" ELSE "play"]
    /\ UNCHANGED <<now, running, sessions, active_timers, ntasks, audio_semaphore,
                   synthesizer, audio_cache, monitor_cache, pre, npre, lastSched>>
    /\ UNCHANGED batchVars

\* variant: the permit is not given back when announce returns
PlayResumeKeepsPermit(t) ==
    /\ tasks[t].pc = "await_play"
    /\ tasks[t].job \in {"play_ok", "play_err"}
    /\ tasks' = [tasks EXCEPT ![t].pc = IF tasks[t].job = "play_ok"
                                        THEN "done" ELSE "failed",
                              ![t].job = "none"]
    /\ UNCHANGED <<now, running, sessions, active_timers, ntasks, synthesizer,
                   audio_semaphore, audio_cache, monitor_cache, pre, npre, hist,
                   lastSched>>
    /\ UNCHANGED batchVars

\* announce returns: _permit is dropped
PlayResume(t) ==
    /\ tasks[t].pc = "await_play"
    /\ tasks[t].job \in {"play_ok", "play_err"}
    /\ audio_semaphore' = audio_semaphore + 1
    /\ tasks' = [tasks EXCEPT ![t].pc = IF tasks[t].job = "play_ok"
                                        THEN "done" ELSE "failed",
                              ![t].job = "none"]
    /\ running' = IF tasks[t].job = "play_err" THEN LogAndContinue(running)
                  ELSE running
    /\ UNCHANGED <<now, sessions, active_timers, ntasks, synthesizer,
                   audio_cache, monitor_cache, pre, npre, hist, lastSched>>
    /\ UNCHANGED batchVars

\* ------------------------------------------------- the engine used directly

\* a task calls announce(text) on a clone of the engine
EngineAnnounce(text) ==
    /\ ntasks < MaxTasks
    /\ SetWorld(Spawn(World, "imm", text, 0, "-", audio_cache))
    /\ UNCHANGED <<now, running, sessions, synthesizer, audio_cache, monitor_cache,
                   pre, npre>>
    /\ UNCHANGED batchVars

\* the JoinHandle of a task inside announce is aborted
EngineAbort(t) ==
    /\ tasks[t].kind # "free"
    /\ tasks[t].pc \notin Terminal
    /\ SetWorld(Abort(MarkCut(World, t), t))
    /\ UNCHANGED <<now, running, sessions, synthesizer, audio_cache, monitor_cache,
                   pre, npre>>
    /\ UNCHANGED batchVars

\* TtsEngine::precache is called
PrecacheStart(texts) ==
    /\ pre.pc = "idle"
    /\ npre < MaxPrecache
    /\ npre' = npre + 1
    /\ pre' = [pc |-> "wait", texts |-> texts, todo |-> texts, map |-> {},
               ret |-> "none"]
    /\ UNCHANGED <<now, running, sessions, active_timers, tasks, ntasks,
                   audio_semaphore, synthesizer, audio_cache, monitor_cache, hist, lastSched>>
    /\ UNCHANGED batchVars

\* the closure of precache: synth.blocking_lock()
PrecacheLock ==
    /\ pre.pc = "wait"
    /\ CanLock
    /\ synthesizer' = PrecacheOwner
    /\ pre' = [pre EXCEPT !.pc = "run"]
    /\ UNCHANGED <<now, running, sessions, active_timers, tasks, ntasks,
                   audio_semaphore, audio_cache, monitor_cache, npre, hist, lastSched>>
    /\ UNCHANGED batchVars

\* variant: every text is inserted into the cache as soon as it is synthesized
PrecacheSynthPerItem(ok) ==
    /\ pre.pc = "run"
    /\ pre.todo # <<>>
    /\ IF ok
       THEN /\ pre' = [pre EXCEPT !.todo = Tail(@), !.map = @ \cup {Head(pre.todo)}]
            /\ audio_cache' = audio_cache \cup {Head(pre.todo)}
            /\ UNCHANGED synthesizer
       ELSE /\ pre' = [PreIdle EXCEPT !.texts = pre.texts, !.ret = "err"]
            /\ synthesizer' = IF synthesizer = PrecacheOwner THEN 0 ELSE synthesizer
            /\ UNCHANGED audio_cache
    /\ UNCHANGED <<now, running, sessions, active_timers, tasks, ntasks,
                   audio_semaphore, monitor_cache, npre, hist, lastSched>>
    /\ UNCHANGED batchVars

\* one turn of the loop over texts; `?` leaves the closure on a failure, the map
\* is dropped and precache returns the error
PrecacheSynth(ok) ==
    /\ pre.pc = "run"
    /\ pre.todo # <<>>
    /\ IF ok
       THEN /\ pre' = [pre EXCEPT !.todo = Tail(@), !.map = @ \cup {Head(pre.todo)}]
            /\ UNCHANGED synthesizer
       ELSE /\ pre' = [PreIdle EXCEPT !.texts = pre.texts, !.ret = "err"]
            /\ synthesizer' = IF synthesizer = PrecacheOwner THEN 0 ELSE synthesizer
    /\ UNCHANGED <<now, running, sessions, active_timers, tasks, ntasks,
                   audio_semaphore, audio_cache, monitor_cache, npre, hist, lastSched>>
    /\ UNCHANGED batchVars

\* variant: the map is shared behind the Arc and extended in place
PrecacheStoreInPlace ==
    /\ pre.pc = "run"
    /\ pre.todo = <<>>
    /\ synthesizer' = IF synthesizer = PrecacheOwner THEN 0 ELSE synthesizer
    /\ audio_cache' = audio_cache \cup pre.map
    /\ monitor_cache' = monitor_cache \cup pre.map
    /\ tasks' = [t \in TaskIds |->
                   IF tasks[t].kind = "free" THEN tasks[t]
                   ELSE [tasks[t] EXCEPT !.cache = @ \cup pre.map]]
    /\ pre' = [PreIdle EXCEPT !.texts = pre.texts, !.ret = "ok"]
    /\ UNCHANGED <<now, running, sessions, active_timers, ntasks,
                   audio_semaphore, npre, hist, lastSched>>
    /\ UNCHANGED batchVars

\* the closure returns the map; Arc::make_mut(&mut self.audio_cache).extend(map)
PrecacheStore ==
    /\ pre.pc = "run"
    /\ pre.todo = <<>>
    /\ synthesizer' = IF synthesizer = PrecacheOwner THEN 0 ELSE synthesizer
    /\ audio_cache' = audio_cache \cup pre.map
    /\ pre' = [PreIdle EXCEPT !.texts = pre.texts, !.ret = "ok"]
    /\ UNCHANGED <<now, running, sessions, active_timers, tasks, ntasks,
                   audio_semaphore, monitor_cache, npre, hist, lastSched>>
    /\ UNCHANGED batchVars

\* ------------------------------------------------------------ batch reader

Chars == {"a", "b"}
Lines == UNION { [1..n -> Chars] : n \in 1..MaxLineLen }

Simple(pattern, announcement) ==
    [type |-> "simple", pattern |-> pattern, announcement |-> announcement,
     timer_delay_in_seconds |-> 0]
TimedDelay(pattern, announcement, delay) ==
    [type |-> "timed_delay", pattern |-> pattern, announcement |-> announcement,
     timer_delay_in_seconds |-> delay]

\* the rule lists the reader is run with
Configs ==
    { << Simple(<<"a">>, "A") >>,
      << Simple(<<"a">>, "A"), TimedDelay(<<"a">>, "B", 1) >>,
      << Simple(<<"a">>, "A"), Simple(<<"b">>, "A"), Simple(<<"a", "b">>, "B"),
         TimedDelay(<<"b">>, "A", 1), TimedDelay(<<"b">>, "B", 2) >> }

\* variant: the comparison ignores the case of the letters
ContainsIgnoreCase(line, pattern) ==
    LET lower(c) == IF c = "A" THEN "a" ELSE c IN
    \E i \in 0..(Len(line) - Len(pattern)) :
        \A n \in 1..Len(pattern) : lower(line[i + n]) = lower(pattern[n])

\* str::contains
Contains(line, pattern) ==
    \E i \in 0..(Len(line) - Len(pattern)) :
        SubSeq(line, i + 1, i + Len(pattern)) = pattern

\* variant: the search stops at the first rule that matches (find, not filter)
MatchFirst(line) ==
    LET all == SelectSeq(messages, LAMBDA m : Contains(line, m.pattern))
    IN IF all = <<>> THEN <<>> ELSE <<Head(all)>>

\* LogMonitor::match_message
MatchMessage(line) ==
    SelectSeq(messages, LAMBDA m : Contains(line, m.pattern))

Range(f) == { f[i] : i \in DOMAIN f }

\* variant: the announcements are pushed to a Vec
VecPush(set, x) == Append(set, x)

\* HashSet::insert: a value already in the set is not added again
HashSetInsert(set, x) ==
    IF x \in Range(set) THEN set ELSE Append(set, x)

\* variant: the value of an existing key is kept (entry().or_insert)
HashMapKeepFirst(map, k, v) ==
    [x \in DOMAIN map \cup {k} |-> IF x \in DOMAIN map THEN map[x] ELSE v]

\* HashMap::insert: the value of an existing key is replaced
HashMapInsert(map, k, v) ==
    [x \in DOMAIN map \cup {k} |-> IF x = k THEN v ELSE map[x]]

\* the `for config in self.match_message(line_buffer)` loop, on <<set, map>>
RECURSIVE Classify(_, _)
Classify(acc, matched) ==
    IF matched = <<>> THEN acc
    ELSE LET config == Head(matched)
             next == IF config.type = "simple"
                     THEN <<HashSetInsert(acc[1], config.announcement), acc[2]>>
                     ELSE <<acc[1],
                            HashMapInsert(acc[2], config.pattern,
                                          <<config.announcement,
                                            config.timer_delay_in_seconds>>)>>
         IN Classify(next, Tail(matched))

EmptyMap == [x \in {} |-> 0]

\* the name under which active_timers of this model keeps a pattern
PatternKey(pattern) == IF pattern = <<"a">> THEN "p1" ELSE "p2"

\* batch_result.timed_delay with its patterns as registry keys
Keyed(timed) ==
    [k \in { PatternKey(p) : p \in DOMAIN timed } |->
        timed[CHOOSE p \in DOMAIN timed : PatternKey(p) = k]]

\* no call of find_most_recent_log yet
NoFound == [called |-> FALSE, some |-> FALSE, path |-> <<>>]

\* start_monitoring has not been called
MonOff == [pc |-> "off", log_path |-> <<>>, offset |-> 0, last_mtime_check |-> 0,
           wake |-> 0, open_len |-> 0, err |-> "none", scan_at |-> -1, inner |-> 0,
           opens |-> 0, prev |-> <<>>]

\* no file is read as bytes
TailOff == [stream |-> <<>>, consumed |-> 0, pc |-> "off", passed |-> <<>>]

\* no shell
AppOff == [is_monitoring |-> FALSE, monitor_handle |-> 0, config |-> FALSE,
           tts_engine |-> FALSE, monitors |-> <<>>, spawned |-> 0, cmds |-> <<>>,
           ncmds |-> 0]

ShellIdle ==
    /\ tail = TailOff
    /\ app = AppOff

\* nothing is known of the directory, no scan was made
ScanIdle ==
    /\ dir = <<>>
    /\ found = NoFound
    /\ lens = [n \in {} |-> 0]
    /\ mon = MonOff
    /\ ShellIdle

NoMatch == [called |-> FALSE, line |-> <<>>, rules |-> <<>>]

NoBatch == [some |-> FALSE, immediate |-> <<>>, timed_delay |-> EmptyMap]

BatchIdle ==
    /\ file = <<>>
    /\ pos = 0
    /\ rd = "idle"
    /\ immediate_set = <<>>
    /\ timed_delay = EmptyMap
    /\ batch = NoBatch
    /\ seen = <<>>
    /\ match_ret = NoMatch
    /\ ScanIdle

\* the game appends a line to the active file
AppendLine(line) ==
    /\ Len(file) < MaxLines
    /\ file' = Append(file, line)
    /\ UNCHANGED <<scanVars, match_ret, shellVars, messages, pos, rd, immediate_set, timed_delay, batch, seen>>
    /\ UNCHANGED pipeVars

\* variant: at end of file an empty batch is returned instead of None
FirstReadEofEmptyBatch ==
    /\ rd = "idle"
    /\ pos = Len(file)
    /\ batch' = [some |-> TRUE, immediate |-> <<>>, timed_delay |-> [x \in {} |-> 0]]
    /\ seen' = <<>>
    /\ UNCHANGED <<scanVars, match_ret, shellVars, messages, file, pos, rd, immediate_set, timed_delay>>
    /\ UNCHANGED pipeVars

\* process_one_batch, the first read_line returns 0 bytes: Ok(None)
FirstReadEof ==
    /\ rd = "idle"
    /\ pos = Len(file)
    /\ batch' = NoBatch
    /\ seen' = <<>>
    /\ UNCHANGED <<scanVars, match_ret, shellVars, messages, file, pos, rd, immediate_set, timed_delay>>
    /\ UNCHANGED pipeVars

\* process_one_batch, the first read_line returns a line
FirstReadLine ==
    /\ rd = "idle"
    /\ pos < Len(file)
    /\ pos' = pos + 1
    /\ LET acc == Classify(<<<<>>, EmptyMap>>, MatchMessage(file[pos + 1]))
       IN /\ immediate_set' = acc[1]
          /\ timed_delay' = acc[2]
    /\ seen' = <<file[pos + 1]>>
    /\ rd' = "batching"
    /\ UNCHANGED <<scanVars, match_ret, shellVars, messages, file, batch>>
    /\ UNCHANGED pipeVars

\* the loop: read_line returns another line before the timeout
NextReadLine ==
    /\ rd = "batching"
    /\ pos < Len(file)
    /\ pos' = pos + 1
    /\ LET acc == Classify(<<immediate_set, timed_delay>>, MatchMessage(file[pos + 1]))
       IN /\ immediate_set' = acc[1]
          /\ timed_delay' = acc[2]
    /\ seen' = Append(seen, file[pos + 1])
    /\ UNCHANGED <<scanVars, match_ret, shellVars, messages, file, rd, batch>>
    /\ UNCHANGED pipeVars

\* variant: after a zero-byte read or a timeout the loop goes on reading
ContinueBatch == UNCHANGED vars

\* Ok(Some(BatchResult { immediate: immediate_set.into_iter().collect(), timed_delay }))
ReturnBatch ==
    /\ batch' = [some |-> TRUE, immediate |-> immediate_set,
                 timed_delay |-> timed_delay]
    /\ rd' = "idle"
    /\ immediate_set' = <<>>
    /\ timed_delay' = EmptyMap
    /\ UNCHANGED <<scanVars, match_ret, shellVars, messages, file, pos, seen>>
    /\ UNCHANGED pipeVars

\* the loop: read_line returns 0 bytes
NextReadEof ==
    /\ rd = "batching"
    /\ pos = Len(file)
    /\ ReturnBatch

\* the loop: BATCH_READ_TIMEOUT elapses before read_line returns
NextReadTimeout ==
    /\ rd = "batching"
    /\ ReturnBatch

BatchInit ==
    /\ now = 0
    /\ running = FALSE
    /\ sessions = 0
    /\ active_timers = [k \in Keys |-> 0]
    /\ tasks = [t \in TaskIds |-> NoTask]
    /\ ntasks = 0
    /\ audio_semaphore = 1
    /\ synthesizer = 0
    /\ audio_cache = {}
    /\ monitor_cache = {}
    /\ pre = PreIdle
    /\ npre = 0
    /\ hist = [t \in TaskIds |-> NoHist]
    /\ lastSched = [k \in Keys |-> -1]
    /\ messages \in Configs
    /\ BatchIdle

BatchNext ==
    \/ \E line \in Lines : AppendLine(line)
    \/ FirstReadEof
    \/ FirstReadLine
    \/ NextReadLine
    \/ NextReadEof
    \/ NextReadTimeout

BatchSpec == BatchInit /\ [][BatchNext]_vars

\* the timed read_line of the loop completes: with a line, with zero bytes, or
\* by the timeout of BATCH_READ_TIMEOUT
BatchFairness == WF_vars(NextReadLine \/ NextReadEof \/ NextReadTimeout)

BatchFairSpec == BatchInit /\ [][BatchNext]_vars /\ BatchFairness

\* --------------------------------------------------- match_message by itself

MatchChars == {"a", "b", "A"}
MatchLines == UNION { [1..n -> MatchChars] : n \in 1..MaxMatchLen }

\* rule lists with patterns that differ in case only, that contain each other,
\* and that occur twice
MatchConfigs ==
    { << Simple(<<"a">>, "A"), Simple(<<"A">>, "B"), TimedDelay(<<"A">>, "A", 1),
         Simple(<<"b">>, "B") >>,
      << TimedDelay(<<"a", "b">>, "A", 1), Simple(<<"b">>, "B"),
         Simple(<<"a", "b">>, "A") >>,
      << Simple(<<"A", "a">>, "A"), Simple(<<"a", "A">>, "B") >> }

\* self.match_message(line)
MatchCall(line) ==
    /\ match_ret' = [called |-> TRUE, line |-> line, rules |-> MatchMessage(line)]
    /\ UNCHANGED <<shellVars, messages, file, pos, rd, immediate_set, timed_delay, batch, seen,
                   scanVars>>
    /\ UNCHANGED pipeVars

MatchInit ==
    /\ now = 0
    /\ running = FALSE
    /\ sessions = 0
    /\ active_timers = [k \in Keys |-> 0]
    /\ tasks = [t \in TaskIds |-> NoTask]
    /\ ntasks = 0
    /\ audio_semaphore = 1
    /\ synthesizer = 0
    /\ audio_cache = {}
    /\ monitor_cache = {}
    /\ pre = PreIdle
    /\ npre = 0
    /\ hist = [t \in TaskIds |-> NoHist]
    /\ lastSched = [k \in Keys |-> -1]
    /\ messages \in MatchConfigs
    /\ BatchIdle

MatchNext == \E line \in MatchLines : MatchCall(line)

MatchSpec == MatchInit /\ [][MatchNext]_vars

\* -------------------------------------------- find_most_recent_log by itself

LOG_FILE_PREFIX == <<"e", "_">>

\* file names: two with the prefix, one that holds the prefix but not at its
\* start, one that is shorter than the prefix
FileNames == { <<"e", "_", "a">>, <<"e", "_", "b">>, <<"x", "e", "_">>, <<"e">> }

\* a directory entry: its name, its modification time, and whether the entry,
\* its metadata and its modification time can be read
Entries == [name : FileNames, mtime : 0..MaxMtime, ok : BOOLEAN]

\* directories: up to MaxEntries entries with different names, in any order
Dirs ==
    UNION { { d \in [1..n -> Entries] :
                \A i, j \in 1..n : i # j => d[i].name # d[j].name } : n \in 0..MaxEntries }

\* str::starts_with
StartsWith(name, prefix) ==
    /\ Len(name) >= Len(prefix)
    /\ SubSeq(name, 1, Len(prefix)) = prefix

\* variant: a later entry with the same time replaces the earlier one
NewerOrSame(mtime, prev_mtime) == mtime >= prev_mtime

\* `Some((_, prev_mtime)) if mtime > *prev_mtime`
Newer(mtime, prev_mtime) == mtime > prev_mtime

NoneYet == [some |-> FALSE, path |-> <<>>, mtime |-> 0]

\* the body of the `for entry in entries` loop, on most_recent
RECURSIVE ScanEntries(_, _)
ScanEntries(most_recent, entries) ==
    IF entries = <<>> THEN most_recent
    ELSE LET entry == Head(entries)
             next == IF StartsWith(entry.name, LOG_FILE_PREFIX) /\ entry.ok
                     THEN IF ~most_recent.some \/ Newer(entry.mtime, most_recent.mtime)
                          THEN [some |-> TRUE, path |-> entry.name, mtime |-> entry.mtime]
                          ELSE most_recent
                     ELSE most_recent
         IN ScanEntries(next, Tail(entries))

\* find_most_recent_log, read_dir having succeeded: most_recent.map(|(path, _)| path)
FindMostRecentLog(entries) ==
    LET most_recent == ScanEntries(NoneYet, entries)
    IN [called |-> TRUE, some |-> most_recent.some, path |-> most_recent.path]

\* find_most_recent_log(&self.game_directory)
FindCall ==
    /\ found' = FindMostRecentLog(dir)
    /\ UNCHANGED <<shellVars, messages, file, pos, rd, immediate_set, timed_delay, batch, seen,
                   match_ret, dir, lens, mon>>
    /\ UNCHANGED pipeVars

FindInit ==
    /\ now = 0
    /\ running = FALSE
    /\ sessions = 0
    /\ active_timers = [k \in Keys |-> 0]
    /\ tasks = [t \in TaskIds |-> NoTask]
    /\ ntasks = 0
    /\ audio_semaphore = 1
    /\ synthesizer = 0
    /\ audio_cache = {}
    /\ monitor_cache = {}
    /\ pre = PreIdle
    /\ npre = 0
    /\ hist = [t \in TaskIds |-> NoHist]
    /\ lastSched = [k \in Keys |-> -1]
    /\ messages = <<>>
    /\ file = <<>>
    /\ pos = 0
    /\ rd = "idle"
    /\ immediate_set = <<>>
    /\ timed_delay = EmptyMap
    /\ batch = NoBatch
    /\ seen = <<>>
    /\ match_ret = NoMatch
    /\ dir \in Dirs
    /\ found = NoFound
    /\ lens = [n \in {} |-> 0]
    /\ mon = MonOff
    /\ ShellIdle

FindNext == FindCall

FindSpec == FindInit /\ [][FindNext]_vars

\* ------------------------------------ start_monitoring: following the files

\* the files of the game directory: two logs and one file that is not a log
FollowNames == { <<"e", "_", "a">>, <<"e", "_", "b">>, <<"x", "e", "_">> }
LogNames == { n \in FollowNames : StartsWith(n, LOG_FILE_PREFIX) }

MTIME_CHECK_INTERVAL == 1
NO_FILE_DELAY == 1

InDir(name) == \E i \in DOMAIN dir : dir[i].name = name

\* every line the game writes to a log of this directory
LogLine == <<"b">>

\* what the reads of the loop leave unchanged
ReadFrame ==
    /\ UNCHANGED <<shellVars, messages, file, pos, rd, seen, match_ret>>
    /\ UNCHANGED pipeVars

\* what the steps of the loop outside process_one_batch leave unchanged
LoopFrame ==
    /\ UNCHANGED <<shellVars, messages, file, pos, rd, immediate_set, timed_delay, seen, match_ret>>
    /\ UNCHANGED pipeVars

\* a file appears in the directory
CreateFile(name) ==
    /\ ~InDir(name)
    /\ Len(dir) < MaxEntries
    /\ dir' = Append(dir, [name |-> name, mtime |-> now, ok |-> TRUE])
    /\ UNCHANGED <<found, lens, mon, batch>>
    /\ LoopFrame

\* the game appends a line to one of its logs
WriteLine(name) ==
    /\ InDir(name)
    /\ lens[name] < MaxFileLines
    /\ lens' = [lens EXCEPT ![name] = @ + 1]
    /\ dir' = [i \in DOMAIN dir |->
                 IF dir[i].name = name THEN [dir[i] EXCEPT !.mtime = now] ELSE dir[i]]
    /\ UNCHANGED <<found, mon, batch>>
    /\ LoopFrame

\* the metadata of a file can no longer be read (its permissions were changed);
\* a reader that has the file open keeps it
MetadataFails(name) ==
    /\ \E i \in DOMAIN dir : dir[i].name = name /\ dir[i].ok
    /\ dir' = [i \in DOMAIN dir |->
                 IF dir[i].name = name THEN [dir[i] EXCEPT !.ok = FALSE] ELSE dir[i]]
    /\ UNCHANGED <<found, lens, mon, batch>>
    /\ LoopFrame

\* variant: after an error the loop starts over with a new scan
RetryOnError(m, kind) == [m EXCEPT !.pc = "scan", !.err = kind]

\* `?` in start_monitoring: the error is returned to the caller
Fatal(m, kind) == [m EXCEPT !.pc = "err", !.err = kind]

\* the top of the outer loop: find_most_recent_log(&self.game_directory)?
OuterScan(ok) ==
    /\ mon.pc = "scan"
    /\ IF ~ok
       THEN /\ mon' = Fatal(mon, "read_dir")
            /\ UNCHANGED found
       ELSE /\ found' = FindMostRecentLog(dir)
            /\ mon' = IF found'.some
                      THEN [mon EXCEPT !.pc = "open", !.log_path = found'.path,
                                       !.scan_at = now, !.prev = mon.log_path]
                      ELSE [mon EXCEPT !.pc = "no_file", !.wake = now + NO_FILE_DELAY,
                                       !.scan_at = now]
    /\ UNCHANGED <<dir, lens, batch>>
    /\ LoopFrame

\* "No eqlog_* files found, waiting...": the sleep of one second is over
NoFileWake ==
    /\ mon.pc = "no_file"
    /\ now >= mon.wake
    /\ mon' = [mon EXCEPT !.pc = "scan", !.wake = 0]
    /\ UNCHANGED <<dir, found, lens, batch>>
    /\ LoopFrame

\* variant: the reader starts at the beginning of the file
SeekStart(len) == 0

\* reader.seek(SeekFrom::End(0))
SeekEnd(len) == len

\* variant: the registry of timers is created anew with every file that is
\* opened
OpenResetsTimers(ok_open, ok_seek) ==
    /\ mon.pc = "open"
    /\ mon' = IF ~ok_open THEN Fatal(mon, "open")
              ELSE IF ~ok_seek THEN Fatal(mon, "seek")
              ELSE [mon EXCEPT !.pc = "read",
                               !.offset = SeekEnd(lens[mon.log_path]),
                               !.open_len = lens[mon.log_path],
                               !.last_mtime_check = now,
                               !.inner = 0,
                               !.opens = @ + 1]
    /\ active_timers' = [k \in Keys |-> 0]
    /\ UNCHANGED <<dir, found, lens, batch>>
    /\ UNCHANGED <<shellVars, messages, file, pos, rd, immediate_set, timed_delay, seen, match_ret>>
    /\ UNCHANGED <<now, running, sessions, tasks, ntasks, audio_semaphore, synthesizer,
                   audio_cache, monitor_cache, pre, npre, hist, lastSched>>

\* File::open(&log_path), seek to the end, last_mtime_check = Instant::now()
Open(ok_open, ok_seek) ==
    /\ mon.pc = "open"
    /\ mon' = IF ~ok_open THEN Fatal(mon, "open")
              ELSE IF ~ok_seek THEN Fatal(mon, "seek")
              ELSE [mon EXCEPT !.pc = "read",
                               !.offset = SeekEnd(lens[mon.log_path]),
                               !.open_len = lens[mon.log_path],
                               !.last_mtime_check = now,
                               !.inner = 0,
                               !.opens = @ + 1]
    /\ UNCHANGED <<dir, found, lens, batch>>
    /\ LoopFrame

\* process_one_batch: the first read_line
ReadFirst(ok) ==
    /\ mon.pc = "read"
    /\ IF ~ok
       THEN /\ mon' = Fatal(mon, "read")
            /\ UNCHANGED <<batch, immediate_set, timed_delay>>
       ELSE IF mon.offset >= lens[mon.log_path]
       THEN /\ mon' = [mon EXCEPT !.pc = "idle"]
            /\ batch' = NoBatch
            /\ UNCHANGED <<immediate_set, timed_delay>>
       ELSE /\ mon' = [mon EXCEPT !.pc = "batching", !.offset = @ + 1]
            /\ LET acc == Classify(<<<<>>, EmptyMap>>, MatchMessage(LogLine))
               IN /\ immediate_set' = acc[1]
                  /\ timed_delay' = acc[2]
            /\ UNCHANGED batch
    /\ UNCHANGED <<dir, found, lens>>
    /\ ReadFrame

\* process_one_batch: a further read_line returns a line, or fails
ReadNext(ok) ==
    /\ mon.pc = "batching"
    /\ IF ~ok
       THEN /\ mon' = Fatal(mon, "read")
            /\ UNCHANGED <<immediate_set, timed_delay>>
       ELSE /\ mon.offset < lens[mon.log_path]
            /\ mon' = [mon EXCEPT !.offset = @ + 1]
            /\ LET acc == Classify(<<immediate_set, timed_delay>>, MatchMessage(LogLine))
               IN /\ immediate_set' = acc[1]
                  /\ timed_delay' = acc[2]
    /\ UNCHANGED <<dir, found, lens, batch>>
    /\ ReadFrame

\* process_one_batch: end of file or timeout; the batch is returned and the
\* Some arm dispatches it
BatchEnd ==
    /\ mon.pc = "batching"
    /\ Len(immediate_set) + Cardinality(DOMAIN timed_delay) <= MaxTasks - ntasks
    /\ batch' = [some |-> TRUE, immediate |-> immediate_set,
                 timed_delay |-> timed_delay]
    /\ LET timed == Keyed(timed_delay)
       IN SetWorld(ScheduleAll(SpawnImmediate(World, Range(immediate_set)), timed,
                               DOMAIN timed))
    /\ immediate_set' = <<>>
    /\ timed_delay' = EmptyMap
    /\ mon' = [mon EXCEPT !.pc = "read"]
    /\ UNCHANGED <<dir, found, lens>>
    /\ UNCHANGED <<shellVars, messages, file, pos, rd, seen, match_ret>>
    /\ UNCHANGED <<now, running, sessions, synthesizer, audio_cache, monitor_cache,
                   pre, npre>>

\* variant: the directory is scanned in every idle cycle
ElapsedAlways(last_mtime_check) == TRUE

\* last_mtime_check.elapsed() >= MTIME_CHECK_INTERVAL
Elapsed(last_mtime_check) == now - last_mtime_check >= MTIME_CHECK_INTERVAL

\* variant: the loop is left whenever the scan finds a file
SwitchAlways(new, log_path) == new.some

\* `if let Some(new_path) = find_most_recent_log(..)? && new_path != log_path`
Switch(new, log_path) == new.some /\ new.path # log_path

\* the None arm: the check for another file, then the sleep of IDLE_RETRY_DELAY
IdleCheck(ok) ==
    /\ mon.pc = "idle"
    /\ IF ~Elapsed(mon.last_mtime_check)
       THEN /\ mon' = [mon EXCEPT !.pc = "read"]
            /\ UNCHANGED found
       ELSE IF ~ok
       THEN /\ mon' = Fatal([mon EXCEPT !.last_mtime_check = now], "read_dir")
            /\ UNCHANGED found
       ELSE /\ found' = FindMostRecentLog(dir)
            /\ mon' = [mon EXCEPT !.last_mtime_check = now,
                                  !.scan_at = now,
                                  !.inner = @ + 1,
                                  !.pc = IF Switch(found', mon.log_path)
                                         THEN "scan" ELSE "read"]
    /\ UNCHANGED <<dir, lens, batch>>
    /\ LoopFrame

\* start_monitoring has been called on an empty game directory
FollowInit ==
    /\ now = 0
    /\ running = FALSE
    /\ sessions = 0
    /\ active_timers = [k \in Keys |-> 0]
    /\ tasks = [t \in TaskIds |-> NoTask]
    /\ ntasks = 0
    /\ audio_semaphore = 1
    /\ synthesizer = 0
    /\ audio_cache = {}
    /\ monitor_cache = {}
    /\ pre = PreIdle
    /\ npre = 0
    /\ hist = [t \in TaskIds |-> NoHist]
    /\ lastSched = [k \in Keys |-> -1]
    /\ messages = <<>>
    /\ file = <<>>
    /\ pos = 0
    /\ rd = "idle"
    /\ immediate_set = <<>>
    /\ timed_delay = EmptyMap
    /\ batch = NoBatch
    /\ seen = <<>>
    /\ match_ret = NoMatch
    /\ dir = <<>>
    /\ found = NoFound
    /\ lens = [n \in FollowNames |-> 0]
    /\ mon = [MonOff EXCEPT !.pc = "scan"]
    /\ ShellIdle

FollowNext ==
    \/ Tick
    \/ \E name \in FollowNames : CreateFile(name)
    \/ \E name \in LogNames : WriteLine(name)
    \/ \E name \in LogNames : MetadataFails(name)
    \/ \E ok \in BOOLEAN : OuterScan(ok)
    \/ NoFileWake
    \/ \E ok_open, ok_seek \in BOOLEAN : Open(ok_open, ok_seek)
    \/ \E ok \in BOOLEAN : ReadFirst(ok)
    \/ \E ok \in BOOLEAN : ReadNext(ok)
    \/ BatchEnd
    \/ \E ok \in BOOLEAN : IdleCheck(ok)

FollowSpec == FollowInit /\ [][FollowNext]_vars

\* ----------------------------------------------------------- specifications

Batches ==
    (SUBSET Texts) \X UNION { [D -> Texts \X Delays] : D \in SUBSET Keys }

Pipeline ==
    \/ \E t \in TaskIds : JobLock(t)
    \/ \E t \in TaskIds, ok \in BOOLEAN : JobSynthDone(t, ok)
    \/ \E t \in TaskIds : SynthResume(t)
    \/ \E t \in TaskIds : AcquirePermit(t)
    \/ \E t \in TaskIds, ok \in BOOLEAN : JobPlayDone(t, ok)
    \/ \E t \in TaskIds : PlayResume(t)

\* the engine after TtsEngine::new
EngineInit ==
    /\ now = 0
    /\ running = FALSE
    /\ sessions = 0
    /\ active_timers = [k \in Keys |-> 0]
    /\ tasks = [t \in TaskIds |-> NoTask]
    /\ ntasks = 0
    /\ audio_semaphore = 1
    /\ synthesizer = 0
    /\ audio_cache = {}
    /\ monitor_cache = {}
    /\ pre = PreIdle
    /\ npre = 0
    /\ hist = [t \in TaskIds |-> NoHist]
    /\ lastSched = [k \in Keys |-> -1]
    /\ messages = <<>>
    /\ BatchIdle

EngineNext ==
    \/ \E text \in Texts : EngineAnnounce(text)
    \/ \E t \in TaskIds : EngineAbort(t)
    \/ Pipeline
    \/ \E texts \in PrecacheInputs : PrecacheStart(texts)
    \/ PrecacheLock
    \/ \E ok \in BOOLEAN : PrecacheSynth(ok)
    \/ PrecacheStore

EngineSpec == EngineInit /\ [][EngineNext]_vars

\* concurrent announce calls on clones of one engine, none of them aborted, and
\* precache on another clone
AnnounceNext ==
    \/ \E text \in Texts : EngineAnnounce(text)
    \/ Pipeline
    \/ \E texts \in PrecacheInputs : PrecacheStart(texts)
    \/ PrecacheLock
    \/ \E ok \in BOOLEAN : PrecacheSynth(ok)
    \/ PrecacheStore

\* the runtime polls every task that can make progress, the blocking pool runs
\* every closure, synthesize_audio and play_audio return
AnnounceFairness ==
    /\ \A t \in TaskIds :
          /\ WF_vars(JobLock(t))
          /\ WF_vars(\E ok \in BOOLEAN : JobSynthDone(t, ok))
          /\ WF_vars(SynthResume(t))
          /\ WF_vars(AcquirePermit(t))
          /\ WF_vars(\E ok \in BOOLEAN : JobPlayDone(t, ok))
          /\ WF_vars(PlayResume(t))
    /\ WF_vars(PrecacheLock)
    /\ WF_vars(\E ok \in BOOLEAN : PrecacheSynth(ok))
    /\ WF_vars(PrecacheStore)

\* the engine after a first precache call has stored "A"
AnnounceInit ==
    /\ now = 0
    /\ running = FALSE
    /\ sessions = 0
    /\ active_timers = [k \in Keys |-> 0]
    /\ tasks = [t \in TaskIds |-> NoTask]
    /\ ntasks = 0
    /\ audio_semaphore = 1
    /\ synthesizer = 0
    /\ audio_cache = {"A"}
    /\ monitor_cache = {}
    /\ pre = [PreIdle EXCEPT !.texts = <<"A">>, !.ret = "ok"]
    /\ npre = MaxPrecache - 1
    /\ hist = [t \in TaskIds |-> NoHist]
    /\ lastSched = [k \in Keys |-> -1]
    /\ messages = <<>>
    /\ BatchIdle

AnnounceSpec == AnnounceInit /\ [][AnnounceNext]_vars /\ AnnounceFairness

\* the shell after init_tts: the engine is stored, "A" was precached, "B" was not
Init ==
    /\ now = 0
    /\ running = FALSE
    /\ sessions = 0
    /\ active_timers = [k \in Keys |-> 0]
    /\ tasks = [t \in TaskIds |-> NoTask]
    /\ ntasks = 0
    /\ audio_semaphore = 1
    /\ synthesizer = 0
    /\ audio_cache = {"A"}
    /\ monitor_cache = {}
    /\ pre = PreIdle
    /\ npre = MaxPrecache
    /\ hist = [t \in TaskIds |-> NoHist]
    /\ lastSched = [k \in Keys |-> -1]
    /\ messages = <<>>
    /\ BatchIdle

Next ==
    \/ Tick
    \/ StartMonitoring
    \/ StopMonitoring
    \/ \E b \in Batches : DispatchBatch(b[1], b[2])
    \/ \E t \in TaskIds : TimerExpire(t)
    \/ Pipeline

Spec == Init /\ [][Next]_vars

\* ------------------------ start_monitoring: timers across a change of file

\* one delayed rule, which every line of the logs matches
HandoverConfig == << TimedDelay(<<"b">>, "B", 1) >>

\* a session on a directory that holds two logs, both empty; "A" was precached
HandoverInit ==
    /\ now = 0
    /\ running = TRUE
    /\ sessions = 1
    /\ active_timers = [k \in Keys |-> 0]
    /\ tasks = [t \in TaskIds |-> NoTask]
    /\ ntasks = 0
    /\ audio_semaphore = 1
    /\ synthesizer = 0
    /\ audio_cache = {"A"}
    /\ monitor_cache = {"A"}
    /\ pre = PreIdle
    /\ npre = MaxPrecache
    /\ hist = [t \in TaskIds |-> NoHist]
    /\ lastSched = [k \in Keys |-> -1]
    /\ messages = HandoverConfig
    /\ file = <<>>
    /\ pos = 0
    /\ rd = "idle"
    /\ immediate_set = <<>>
    /\ timed_delay = EmptyMap
    /\ batch = NoBatch
    /\ seen = <<>>
    /\ match_ret = NoMatch
    /\ dir = << [name |-> <<"e", "_", "a">>, mtime |-> 0, ok |-> TRUE],
                [name |-> <<"e", "_", "b">>, mtime |-> 0, ok |-> TRUE] >>
    /\ found = NoFound
    /\ lens = [n \in FollowNames |-> 0]
    /\ mon = [MonOff EXCEPT !.pc = "scan"]
    /\ ShellIdle

HandoverNext ==
    \/ Tick
    \/ \E name \in LogNames : WriteLine(name)
    \/ OuterScan(TRUE)
    \/ Open(TRUE, TRUE)
    \/ ReadFirst(TRUE)
    \/ ReadNext(TRUE)
    \/ BatchEnd
    \/ IdleCheck(TRUE)
    \/ \E t \in TaskIds : TimerExpire(t)
    \/ Pipeline

HandoverSpec == HandoverInit /\ [][HandoverNext]_vars

\* ------------------------------- start_monitoring: the loop on one open file

\* the rules and the lines the loop is run with
LoopConfig ==
    << Simple(<<"a">>, "A"), Simple(<<"b">>, "B"), TimedDelay(<<"b">>, "A", 1) >>
LoopLines == { <<"a">>, <<"b">> }

\* variant: the loop awaits the JoinHandle of every announcement it spawned
Joined(w) ==
    \A t \in TaskIds : w.tasks[t].kind = "imm" => w.tasks[t].pc \in Terminal

\* tokio::spawn returns at once and its JoinHandle is dropped: the loop goes on
\* whatever the tasks do
Detached(w) == TRUE

\* the top of the inner loop: the batch of the last cycle has been consumed
LoopCall ==
    /\ running
    /\ ~batch.some
    /\ Detached(World)

\* self.process_one_batch(..).await? returns None; the None arm sleeps (no other
\* file is in the directory)
LoopReadEof == LoopCall /\ FirstReadEof

\* self.process_one_batch(..).await? reads a first line
LoopReadLine == LoopCall /\ FirstReadLine

\* the Some(batch_result) arm: one task per immediate announcement, then
\* schedule_timed_delay per pattern; batch_result is consumed
LoopDispatch ==
    /\ running
    /\ rd = "idle"
    /\ batch.some
    /\ Len(batch.immediate) + Cardinality(DOMAIN batch.timed_delay) <= MaxTasks - ntasks
    /\ LET timed == Keyed(batch.timed_delay)
       IN SetWorld(ScheduleAll(SpawnImmediate(World, Range(batch.immediate)), timed,
                               DOMAIN timed))
    /\ batch' = NoBatch
    /\ UNCHANGED <<now, running, sessions, synthesizer, audio_cache, monitor_cache,
                   pre, npre>>
    /\ UNCHANGED <<scanVars, match_ret, shellVars, messages, file, pos, rd, immediate_set,
                   timed_delay, seen>>

\* the first session after init_tts has precached "A": the file was just opened
LoopInit ==
    /\ now = 0
    /\ running = TRUE
    /\ sessions = 1
    /\ active_timers = [k \in Keys |-> 0]
    /\ tasks = [t \in TaskIds |-> NoTask]
    /\ ntasks = 0
    /\ audio_semaphore = 1
    /\ synthesizer = 0
    /\ audio_cache = {"A"}
    /\ monitor_cache = {"A"}
    /\ pre = PreIdle
    /\ npre = MaxPrecache
    /\ hist = [t \in TaskIds |-> NoHist]
    /\ lastSched = [k \in Keys |-> -1]
    /\ messages = LoopConfig
    /\ BatchIdle

LoopNext ==
    \/ \E line \in LoopLines : AppendLine(line)
    \/ LoopReadEof
    \/ LoopReadLine
    \/ NextReadLine
    \/ NextReadEof
    \/ NextReadTimeout
    \/ LoopDispatch
    \/ Tick
    \/ \E t \in TaskIds : TimerExpire(t)
    \/ Pipeline

LoopSpec == LoopInit /\ [][LoopNext]_vars

\* ------------------------------------------------------------------ claims

Timers(s, k) ==
    { t \in TaskIds : tasks[t].kind = "timer" /\ hist[t].sess = s /\ hist[t].key = k }
SessionIds == 1..MaxSessions
Max(S) == CHOOSE x \in S : \A y \in S : y <= x

\* the closures that are inside play_audio, inside synthesize_audio
Playing == { t \in TaskIds : tasks[t].job = "play_run" }
Synthesizing == { t \in TaskIds : tasks[t].job = "synth_run" }

\* C1: at most one play_audio is executing at any time, whatever announce calls
\* run concurrently and whichever timer tasks a later schedule aborts.
C1_PlaybackNeverOverlaps == Cardinality(Playing) <= 1

\* C2: at most one synthesis is in flight, counting the closures of announce
\* (cache miss) and the closure of precache, also when the task that asked for a
\* synthesis was aborted while it runs.
C2_OneSynthesisInFlight ==
    Cardinality(Synthesizing) + (IF pre.pc = "run" THEN 1 ELSE 0) <= 1

\* a synthesis runs for an aborted task while another closure and precache wait
C2_Witness ==
    /\ pre.pc = "wait"
    /\ \E t, u \in TaskIds :
          /\ tasks[t].pc = "aborted" /\ tasks[t].job = "synth_run"
          /\ tasks[u].job = "synth_wait"

\* C3: when every schedule call for a pattern but the last met its predecessor
\* still asleep, the timers of that pattern that invoke announce are: none while
\* the last one sleeps, then exactly the last one, with its text.
C3_DebounceLastWins ==
    \A s \in SessionIds, k \in Keys :
        LET T == Timers(s, k) IN
        (T # {} /\ \A t \in T \ {Max(T)} : hist[t].cut = "asleep")
            => { t \in T : hist[t].fired } =
                   IF tasks[Max(T)].pc = "sleep" THEN {} ELSE {Max(T)}

\* schedule(k, A) then schedule(k, B) before A fired, and B has been announced
C3_Witness ==
    \E k \in Keys, t, u \in TaskIds :
        /\ t < u
        /\ {t, u} = Timers(sessions, k)
        /\ hist[t].cut = "asleep"
        /\ tasks[t].text = "A" /\ tasks[u].text = "B"
        /\ hist[u].fired /\ hist[u].played

\* the time of the last schedule call for the pattern of timer t, in the session
\* of t
LastScheduleOf(t) ==
    IF hist[t].sess = sessions
    THEN lastSched[hist[t].key]
    ELSE tasks[t].due - hist[t].delay

\* C4: a timer invokes announce no earlier than its delay after the most recent
\* schedule call for its pattern.
C4_NotBeforeDelayFromLastSchedule ==
    [][\A t \in TaskIds :
          (tasks[t].pc = "sleep" /\ hist'[t].fired)
              => now >= LastScheduleOf(t) + hist[t].delay]_vars

\* a pattern was re-scheduled with the same text at a later time, and the second
\* timer has invoked announce
C4_Witness ==
    \E k \in Keys, t, u \in TaskIds :
        /\ t < u
        /\ {t, u} \subseteq Timers(sessions, k)
        /\ hist[t].cut = "asleep"
        /\ tasks[t].text = tasks[u].text
        /\ lastSched[k] > 0
        /\ hist[u].fired

C6_ExpiredTimerLeavesRegistry ==
    \A k \in Keys :
        active_timers[k] # 0 => tasks[active_timers[k]].pc \notin {"done", "failed"}

\* C7: a timer that a schedule call replaced while it was asleep never invokes
\* announce: it is dropped, no synthesis and no playback is started for it.
C7_CancelledAsleepNeverFires ==
    \A t \in TaskIds :
        hist[t].cut = "asleep"
            => /\ ~hist[t].fired
               /\ tasks[t].pc = "aborted"
               /\ tasks[t].job = "none"
               /\ ~hist[t].played

\* a timer was replaced asleep and the time at which it was due has passed
C7_Witness ==
    \E t \in TaskIds :
        /\ hist[t].cut = "asleep"
        /\ now > lastSched[hist[t].key] + MaxDelay
        /\ hist[t].sess = sessions

\* C8: a timer that a schedule call met inside announce (synthesizing, waiting
\* for the slot or playing) still plays its announcement: once nothing runs for
\* it any more, its play_audio has returned Ok, unless a closure failed.
C8_MidflightStillPlayed ==
    \A t \in TaskIds :
        (hist[t].cut = "midflight" /\ tasks[t].pc = "aborted" /\ tasks[t].job = "none")
            => (hist[t].played \/ hist[t].err # "none")

\* C9: a timer that slept when its session was stopped never invokes announce.
C9_StopAbortsTimers ==
    \A t \in TaskIds : hist[t].orph => ~hist[t].fired

Count(seq, x) == Cardinality({ i \in DOMAIN seq : seq[i] = x })

\* the returned batch was built from identical lines only
IdenticalLines ==
    /\ rd = "idle"
    /\ batch.some
    /\ seen # <<>>
    /\ \A i \in DOMAIN seen : seen[i] = seen[1]

\* C10: a batch built from N >= 1 identical lines that match an immediate rule
\* holds that rule's announcement exactly once in its immediate collection.
C10_DedupIdenticalLines ==
    IdenticalLines =>
        \A i \in DOMAIN messages :
            (messages[i].type = "simple" /\ Contains(seen[1], messages[i].pattern))
                => Count(batch.immediate, messages[i].announcement) = 1

\* a batch of MaxLines identical lines that match an immediate rule
C10_Witness ==
    /\ IdenticalLines
    /\ Len(seen) = MaxLines
    /\ \E i \in DOMAIN messages :
          messages[i].type = "simple" /\ Contains(seen[1], messages[i].pattern)

\* process_one_batch has returned Some(batch) for the lines in seen
Returned == rd = "idle" /\ batch.some

\* the rules of the given type that a line of the batch satisfies
Satisfied(type) ==
    { i \in DOMAIN messages :
        /\ messages[i].type = type
        /\ \E n \in DOMAIN seen : Contains(seen[n], messages[i].pattern) }

\* the satisfied delayed rule with pattern p that comes last in read order: the
\* last line that holds p, and in it the last rule in configuration order
LastDelayed(p) ==
    LET hits == { h \in (DOMAIN seen) \X Satisfied("timed_delay") :
                    /\ messages[h[2]].pattern = p
                    /\ Contains(seen[h[1]], p) }
        last == CHOOSE h \in hits : \A g \in hits :
                    g[1] < h[1] \/ (g[1] = h[1] /\ g[2] <= h[2])
    IN messages[last[2]]

\* C11: the immediate collection of a batch is the set of the texts of the
\* immediate rules that some line of the batch satisfies, without duplicates;
\* the delayed map has one entry per pattern of the satisfied delayed rules, and
\* its value is the (announcement, delay) of the last such rule in read order.
C11_BatchIsExactlyTheMatches ==
    Returned =>
        /\ Range(batch.immediate) =
               { messages[i].announcement : i \in Satisfied("simple") }
        /\ Len(batch.immediate) = Cardinality(Range(batch.immediate))
        /\ DOMAIN batch.timed_delay =
               { messages[i].pattern : i \in Satisfied("timed_delay") }
        /\ \A p \in DOMAIN batch.timed_delay :
               batch.timed_delay[p] = <<LastDelayed(p).announcement,
                                        LastDelayed(p).timer_delay_in_seconds>>

\* a batch of MaxLines different lines with two immediate texts, in which two
\* delayed rules with one pattern were satisfied, the pattern more than once
C11_Witness ==
    /\ Returned
    /\ Len(seen) = MaxLines
    /\ Cardinality(Range(seen)) = MaxLines
    /\ Len(batch.immediate) = 2
    /\ \E p \in DOMAIN batch.timed_delay :
          /\ Cardinality({ i \in Satisfied("timed_delay") :
                              messages[i].pattern = p }) = 2
          /\ Cardinality({ n \in DOMAIN seen : Contains(seen[n], p) }) >= 2

\* the delayed rules with pattern p
DelayedRules(p) ==
    { i \in DOMAIN messages :
        messages[i].type = "timed_delay" /\ messages[i].pattern = p }

\* C12: an immediate rule and a delayed rule with the same pattern do not shadow
\* each other: when a line of the batch holds the pattern, the batch has the
\* text of the immediate rule once in its immediate collection and, under the
\* pattern, the (announcement, delay) of a delayed rule with that pattern.
C12_SamePatternBothKinds ==
    Returned =>
        \A i \in Satisfied("simple") :
            LET p == messages[i].pattern IN
            DelayedRules(p) # {} =>
                /\ Count(batch.immediate, messages[i].announcement) = 1
                /\ p \in DOMAIN batch.timed_delay
                /\ \E j \in DelayedRules(p) :
                      batch.timed_delay[p] = <<messages[j].announcement,
                                               messages[j].timer_delay_in_seconds>>

\* three copies of a line that satisfies an immediate and a delayed rule with one
\* pattern: the batch is {"A"} and {pattern: ("B", 1)}
C12_Witness ==
    /\ IdenticalLines
    /\ Len(seen) = 3
    /\ Len(messages) = 2
    /\ messages[1].type = "simple" /\ messages[2].type = "timed_delay"
    /\ messages[1].pattern = messages[2].pattern
    /\ batch.immediate = <<"A">>
    /\ DOMAIN batch.timed_delay = {messages[2].pattern}
    /\ batch.timed_delay[messages[2].pattern] = <<"B", 1>>

Occurs(line, pattern) ==
    \E a \in 0..Len(line), b \in 0..Len(line) :
        /\ a + Len(pattern) + b = Len(line)
        /\ line = SubSeq(line, 1, a) \o pattern \o SubSeq(line, Len(line) - b + 1, Len(line))

\* the elements of a set of numbers in increasing order
RECURSIVE Sorted(_)
Sorted(S) ==
    IF S = {} THEN <<>>
    ELSE LET m == CHOOSE x \in S : \A y \in S : x <= y
         IN <<m>> \o Sorted(S \ {m})

\* C14: match_message(line) returns the rules whose pattern occurs in line as a
\* substring, letter case included; all of them, in configuration order; the
\* call changes nothing.
C14_MatchMessageExact ==
    [][match_ret' # match_ret =>
          LET line == match_ret'.line
              idx == Sorted({ i \in DOMAIN messages :
                                Occurs(line, messages[i].pattern) })
          IN /\ match_ret'.rules = [k \in DOMAIN idx |-> messages[idx[k]]]
             /\ messages' = messages
             /\ <<file, pos, rd, immediate_set, timed_delay, batch, seen>>' =
                    <<file, pos, rd, immediate_set, timed_delay, batch, seen>>
             /\ pipeVars' = pipeVars]_vars

\* a line with "A" and without "a" under rules for both: the rule for "a" is not
\* returned, the two rules for "A" and the rule for "b" are, in their order
C14_Witness ==
    /\ match_ret.called
    /\ match_ret.line = <<"b", "A", "b">>
    /\ Len(messages) = 4
    /\ match_ret.rules = <<messages[2], messages[3], messages[4]>>

\* C15: every announce call on a clone of the engine returns (Ok or Err), for any
\* finite number of concurrent calls, when every task and closure that can run
\* does run and synthesize_audio and play_audio return.
C15_EveryAnnounceReturns ==
    \A t \in TaskIds :
        (tasks[t].kind # "free") ~> (tasks[t].pc \in {"done", "failed"})

\* MaxTasks calls have all returned, two or more of them have played and one of
\* those had to synthesize first
C15_Witness ==
    /\ ntasks = MaxTasks
    /\ \A t \in TaskIds : tasks[t].pc \in {"done", "failed"}
    /\ \E t \in TaskIds : tasks[t].text \notin tasks[t].cache /\ hist[t].played
    /\ Cardinality({ t \in TaskIds : hist[t].played }) >= 2

\* C16: when the announcement of one dispatched task fails (synthesis or
\* playback), the monitoring loop stays alive, the registry is untouched and no
\* other task is affected.
C16_FailureStaysInItsTask ==
    [][\A t \in TaskIds :
          (tasks[t].pc # "failed" /\ tasks'[t].pc = "failed")
              => /\ running' = running
                 /\ active_timers' = active_timers
                 /\ \A u \in TaskIds \ {t} :
                       tasks'[u] = tasks[u] /\ hist'[u] = hist[u]]_vars

\* a timer failed; after that the running loop scheduled its pattern again, and
\* the new timer has announced
C16_Witness ==
    \E k \in Keys, t, u \in TaskIds :
        /\ running
        /\ t < u
        /\ {t, u} \subseteq Timers(sessions, k)
        /\ tasks[t].pc = "failed" /\ hist[t].cut = "none"
        /\ hist[u].played

\* the task has asked for the playback slot or gone beyond
ReachedPlayback(t) ==
    \/ tasks[t].pc \in {"await_permit", "await_play", "done"}
    \/ tasks[t].job \in {"play_run", "play_ok", "play_err"}
    \/ hist[t].played

\* C17: announce returns Err when its synthesis or its playback failed, never
\* Ok; after a failed synthesis the call does not ask for the playback slot and
\* no play_audio is started for it.
C17_FailureIsReturned ==
    \A t \in TaskIds :
        /\ hist[t].err = "synth"
              => tasks[t].pc \in {"await_synth", "failed", "aborted"} /\ ~ReachedPlayback(t)
        /\ hist[t].err = "play"
              => tasks[t].pc \in {"await_play", "failed", "aborted"}
        /\ tasks[t].pc = "done" => hist[t].err = "none"
        /\ tasks[t].pc = "failed" => hist[t].err # "none"

\* one call has returned Err after a failed synthesis, another after a failed
\* playback, and the slot is free again
C17_Witness ==
    \E t, u \in TaskIds :
        /\ tasks[t].pc = "failed" /\ hist[t].err = "synth"
        /\ tasks[u].pc = "failed" /\ hist[u].err = "play"
        /\ audio_semaphore = 1

\* C18: precache is all or nothing. While a call runs the cache does not change;
\* a call returns Ok only after every given text was synthesized, and then the
\* cache is the old cache plus all given texts; a call that returns Err leaves
\* the cache as it was.
C18_PrecacheAllOrNothing ==
    [][/\ (pre.pc # "idle" /\ pre'.pc # "idle") => audio_cache' = audio_cache
       /\ (pre.pc # "idle" /\ pre'.pc = "idle") =>
             \/ /\ pre'.ret = "err"
                /\ audio_cache' = audio_cache
             \/ /\ pre'.ret = "ok"
                /\ pre.todo = <<>>
                /\ audio_cache' = audio_cache \cup Range(pre.texts)]_vars

\* a second call for "A" and "B" has returned Err; the cache still holds what the
\* first call stored, and only that
C18_Witness ==
    /\ npre = 2
    /\ pre.pc = "idle"
    /\ pre.ret = "err"
    /\ pre.texts = <<"A", "B">>
    /\ audio_cache = {"A"}

\* the calls whose text was in the cache of their engine
CacheHits == { t \in TaskIds : tasks[t].kind # "free" /\ tasks[t].text \in tasks[t].cache }

\* C19: a call whose text is cached starts no synthesis closure and never holds
\* or waits for the synthesizer mutex; it goes straight to the playback slot.
C19_CacheHitSkipsSynthesis ==
    \A t \in CacheHits :
        /\ tasks[t].pc # "await_synth"
        /\ tasks[t].job \notin {"synth_wait", "synth_run", "synth_ok", "synth_err"}
        /\ synthesizer # t
        /\ hist[t].err # "synth"

\* a call for a cached text is playing while a call that was made before it holds
\* the synthesizer and precache waits for it
C19_Witness ==
    \E t \in CacheHits, u \in TaskIds :
        /\ u < t
        /\ synthesizer = u
        /\ tasks[u].job = "synth_run"
        /\ pre.pc = "wait"
        /\ tasks[t].job = "play_run"

\* C20: announce does not modify the cache. The cache of the engine changes only
\* when a precache call returns Ok, the cache a call works on never changes, and
\* every call for a text that is not cached starts a synthesis, also when the
\* same text was synthesized for an earlier call.
C20_AnnounceLeavesCache ==
    [][/\ audio_cache' # audio_cache
             => (pre.pc = "run" /\ pre'.pc = "idle" /\ pre'.ret = "ok")
       /\ \A t \in TaskIds :
             /\ tasks[t].kind # "free" => tasks'[t].cache = tasks[t].cache
             /\ (tasks[t].kind = "free" /\ tasks'[t].kind # "free"
                   /\ tasks'[t].text \notin audio_cache)
                   => (tasks'[t].pc = "await_synth" /\ tasks'[t].job = "synth_wait")]_vars

\* "B" was never precached: a call for "B" was synthesized and played, and the
\* synthesizer now runs for another call for "B"
C20_Witness ==
    \E t, u \in TaskIds :
        /\ t # u
        /\ tasks[t].text = "B" /\ tasks[u].text = "B"
        /\ "B" \notin audio_cache
        /\ tasks[t].pc = "done" /\ hist[t].played
        /\ tasks[u].job = "synth_run"

\* C21: the synthesizer mutex and the playback slot are never held together: the
\* owner of the mutex is a closure inside synthesize_audio whose task, if it
\* still exists, awaits that closure; a task that waits for or holds the permit
\* neither owns the mutex nor has a synthesis closure.
C21_LocksAreSplit ==
    \A t \in TaskIds :
        /\ synthesizer = t
              => tasks[t].job = "synth_run" /\ tasks[t].pc \in {"await_synth", "aborted"}
        /\ tasks[t].pc \in {"await_permit", "await_play"}
              => synthesizer # t /\ tasks[t].job \notin {"synth_wait", "synth_run"}

\* one announcement is being synthesized while another, which holds the permit,
\* is being played
C21_Witness ==
    \E t, u \in TaskIds :
        /\ synthesizer = t
        /\ tasks[t].pc = "await_synth" /\ tasks[t].job = "synth_run"
        /\ tasks[u].pc = "await_play" /\ tasks[u].job = "play_run"
        /\ audio_semaphore = 0

\* the entries that can be chosen: the name starts with the prefix and the
\* modification time can be read
Candidates == { i \in DOMAIN dir : StartsWith(dir[i].name, LOG_FILE_PREFIX) /\ dir[i].ok }

\* C22: find_most_recent_log returns None when no entry has the prefix;
\* otherwise the entry with the prefix that has the greatest modification time,
\* the first of them in scan order when several have it; it returns the same
\* with the entries without the prefix taken out of the directory.
C22_MostRecentWithPrefix ==
    found.called =>
        /\ found.some <=> Candidates # {}
        /\ found.some =>
              \E i \in Candidates :
                  /\ found.path = dir[i].name
                  /\ \A j \in Candidates : dir[j].mtime <= dir[i].mtime
                  /\ \A j \in Candidates : dir[j].mtime = dir[i].mtime => i <= j
        /\ found = FindMostRecentLog(
                       SelectSeq(dir, LAMBDA e : StartsWith(e.name, LOG_FILE_PREFIX)))

\* two entries with the prefix have the same, greatest time; an entry without
\* the prefix is newer than both and comes first; the first of the two is
\* returned
C22_Witness ==
    /\ found.called
    /\ Len(dir) = 3
    /\ ~StartsWith(dir[1].name, LOG_FILE_PREFIX) /\ dir[1].ok
    /\ dir[1].mtime > dir[2].mtime
    /\ Candidates = {2, 3}
    /\ dir[2].mtime = dir[3].mtime
    /\ found.some /\ found.path = dir[2].name

\* the loop has a file open
Monitoring == mon.pc \in {"read", "batching", "idle"}

\* C23: while a file is monitored the directory is scanned only after
\* process_one_batch returned None, and not before the check interval has passed
\* since the file was opened and since the last scan; a cycle that returned a
\* batch goes on reading the same file without a scan.
C23_ScanOnlyWhenIdle ==
    [][/\ (Monitoring /\ (mon'.scan_at # mon.scan_at \/ mon'.inner # mon.inner))
             => /\ mon.pc = "idle" /\ ~batch.some
                /\ now >= mon.scan_at + MTIME_CHECK_INTERVAL
                /\ mon'.inner = mon.inner + 1
       /\ (Monitoring /\ found' # found) => mon'.inner = mon.inner + 1
       /\ (batch'.some /\ mon.pc = "batching" /\ mon'.pc # "batching" /\ mon'.pc # "err")
             => /\ mon'.pc = "read"
                /\ mon'.log_path = mon.log_path
                /\ mon'.scan_at = mon.scan_at
                /\ found' = found]_vars

\* the second scan since the file was opened has been made, and batches were
\* read from the file
C23_Witness ==
    /\ Monitoring
    /\ mon.inner = 2
    /\ mon.offset > mon.open_len
    /\ batch.some

\* the log whose modification time is greater than that of every other log
StrictlyNewest(name) ==
    \E i \in Candidates :
        /\ dir[i].name = name
        /\ \A j \in Candidates \ {i} : dir[j].mtime < dir[i].mtime

\* C24: handover. At an idle check that scans, the loop leaves the active file
\* when another log has become the most recently modified one, then selects and
\* opens that log; when the scan returns the active path or nothing, the loop
\* goes on with the same handle at the same position.
C24_Handover ==
    [][/\ (mon.pc = "idle" /\ mon'.inner # mon.inner) =>
             /\ (\E n \in LogNames : n # mon.log_path /\ StrictlyNewest(n))
                   => mon'.pc = "scan"
             /\ (~found'.some \/ found'.path = mon.log_path)
                   => /\ mon'.pc = "read"
                      /\ mon'.log_path = mon.log_path
                      /\ mon'.offset = mon.offset
                      /\ mon'.opens = mon.opens
       /\ (mon.pc = "scan" /\ mon'.pc = "open") =>
             \A n \in LogNames : StrictlyNewest(n) => mon'.log_path = n
       /\ (mon.pc = "open" /\ mon'.pc = "read") =>
             mon'.log_path = mon.log_path /\ mon'.opens = mon.opens + 1]_vars

\* the second log was written to while the first was open; the loop has left the
\* first and reads the second
C24_Witness ==
    /\ mon.pc = "batching"
    /\ mon.opens = 2
    /\ mon.prev # <<>> /\ mon.prev # mon.log_path
    /\ StrictlyNewest(mon.log_path)
    /\ lens[mon.prev] > 0

\* the scans of a monitored file found no log at all, and the file is still read
C24_KeptWitness ==
    /\ mon.pc = "batching"
    /\ mon.inner > 0
    /\ ~found.some
    /\ mon.opens = 1

\* C25: the reader of a file that is opened stands at the end of the file, and
\* from there it moves line by line: every line it reads was appended after the
\* file was opened.
C25_OpenedAtEnd ==
    [][mon'.offset # mon.offset =>
          \/ /\ mon.pc = "open"
             /\ mon'.offset = lens[mon'.log_path]
          \/ /\ Monitoring
             /\ mon'.log_path = mon.log_path
             /\ mon'.offset = mon.offset + 1
             /\ mon'.offset > mon.open_len
             /\ mon'.offset <= lens[mon.log_path]]_vars

\* at a handover a log that already held a line was opened, and the line that
\* was appended afterwards has been read
C25_Witness ==
    /\ mon.opens = 2
    /\ mon.open_len > 0
    /\ mon.offset > mon.open_len
    /\ mon.pc = "batching"

\* the step of start_monitoring at which each kind of error arises
ErrorAt(kind) ==
    CASE kind = "read_dir" -> {"scan", "idle"}
      [] kind = "open"     -> {"open"}
      [] kind = "seek"     -> {"open"}
      [] kind = "read"     -> {"read", "batching"}

\* C29: a failed scan of the directory, a failed open, a failed seek and a
\* failed read each end start_monitoring with that error; after it has returned
\* the error it scans nothing, opens nothing, reads no batch and never runs
\* again.
C29_FatalErrorsEnd ==
    [][/\ mon'.err # mon.err =>
             /\ mon.err = "none"
             /\ mon'.pc = "err"
             /\ mon.pc \in ErrorAt(mon'.err)
             /\ mon'.offset = mon.offset
             /\ batch' = batch
       /\ mon.pc = "err" =>
             /\ mon' = mon
             /\ batch' = batch
             /\ found' = found]_vars

\* a read on the active handle has failed; afterwards the game has written a
\* line and a second has passed, and the line has not been read
C29_Witness ==
    /\ mon.pc = "err"
    /\ mon.err = "read"
    /\ lens[mon.log_path] > mon.offset
    /\ \E i \in DOMAIN dir : dir[i].name = mon.log_path /\ dir[i].mtime > mon.last_mtime_check

\* the announcement tasks that are inside announce
InFlight == { t \in TaskIds : tasks[t].kind = "imm" /\ tasks[t].pc \notin Terminal }

\* C26: a call of process_one_batch starts only when no call is in progress
\* and the batch the last call returned has been dispatched; a batch is
\* dispatched between two calls, one task or timer per entry; and the next call
\* can start as soon as the batch is dispatched, whatever the tasks of earlier
\* batches do.
C26_OneBatchAtATime ==
    /\ [][/\ (rd = "idle" /\ rd' = "batching") => ~batch.some
          /\ (batch.some /\ ~batch'.some) =>
                /\ rd = "idle" /\ rd' = "idle" /\ pos' = pos
                /\ ntasks' = ntasks + Len(batch.immediate)
                                    + Cardinality(DOMAIN batch.timed_delay)
          /\ rd = "batching" => ntasks' = ntasks]_vars
    /\ []((running /\ rd = "idle" /\ ~batch.some /\ pos < Len(file))
            => ENABLED LoopReadLine)

\* the second batch is being read while an announcement of the first batch is
\* still being synthesized or played
C26_Witness ==
    /\ rd = "batching"
    /\ \E t \in InFlight : tasks[t].job \in {"synth_run", "play_run"}

\* C27: when a batch is dispatched, each text of its immediate collection gets
\* exactly one new task, which has called announce with that text on a clone
\* of the engine; and no step, of the loop or of another task, cancels an
\* announcement task or changes its text: it leaves announce only by finishing
\* or failing.
C27_EachImmediateAttempted ==
    [][/\ (batch.some /\ ~batch'.some) =>
             \A text \in Texts :
                 Cardinality({ t \in (ntasks + 1)..ntasks' :
                                  /\ tasks'[t].kind = "imm"
                                  /\ tasks'[t].text = text
                                  /\ hist'[t].fired
                                  /\ tasks'[t].pc \in {"await_synth", "await_permit"} })
                   = IF text \in Range(batch.immediate) THEN 1 ELSE 0
       /\ \A t \in TaskIds :
             tasks[t].kind = "imm" =>
                /\ tasks'[t].kind = "imm"
                /\ tasks'[t].text = tasks[t].text
                /\ tasks'[t].pc # "aborted"
                /\ hist'[t].fired]_vars

\* a batch with two immediate announcements was dispatched: the synthesis of
\* one failed, the other was played
C27_Witness ==
    \E t, u \in TaskIds :
        /\ tasks[t].kind = "imm" /\ tasks[u].kind = "imm"
        /\ t + 1 = u
        /\ tasks[t].text # tasks[u].text
        /\ \/ hist[t].err = "synth" /\ hist[u].played
           \/ hist[u].err = "synth" /\ hist[t].played

Scheduled == { k \in Keys : active_timers'[k] > ntasks }

\* C30: a schedule call for a pattern that has no entry in active_timers, or
\* whose entry is a timer that has fired and finished, leaves the loop running,
\* leaves every finished task as it was, and registers exactly one new sleeping
\* timer for the pattern.
C30_CancelOnMissIsNoOp ==
    [][\A k \in Scheduled :
          LET old == active_timers[k] IN
          (old = 0 \/ tasks[old].pc \in {"done", "failed"}) =>
             /\ running' = running
             /\ \A t \in TaskIds :
                   tasks[t].pc \in Terminal =>
                      tasks'[t] = tasks[t] /\ hist'[t] = hist[t]
             /\ Cardinality({ t \in (ntasks + 1)..ntasks' :
                                 tasks'[t].kind = "timer" /\ hist'[t].key = k }) = 1
             /\ tasks'[active_timers'[k]].kind = "timer"
             /\ tasks'[active_timers'[k]].pc = "sleep"
             /\ hist'[active_timers'[k]].key = k]_vars

\* the timer of a pattern has announced and finished; the pattern was then
\* scheduled again and its new timer sleeps, the finished one still stands as
\* played
C30_Witness ==
    \E k \in Keys, t, u \in TaskIds :
        /\ running
        /\ t < u
        /\ {t, u} \subseteq Timers(sessions, k)
        /\ tasks[t].pc = "done" /\ hist[t].played /\ hist[t].cut = "none"
        /\ active_timers[k] = u
        /\ tasks[u].pc = "sleep"
        /\ lastSched[k] = now

\* C31: the cache an announce call looks up is the map its clone of the engine
\* was created with: no step changes it while the call lives, and a precache
\* call that extends the cache of its own engine value leaves the caches of
\* the clones made before it as they were.
C31_CacheReadOnlyForClones ==
    [][/\ \A t \in TaskIds :
             tasks[t].kind # "free" => tasks'[t].cache = tasks[t].cache
       /\ audio_cache' # audio_cache =>
             /\ pre.pc = "run" /\ pre'.ret = "ok"
             /\ audio_cache' = audio_cache \cup pre.map
             /\ monitor_cache' = monitor_cache]_vars

\* precache has stored "B" while a call made before it still synthesizes "B"
\* from a clone whose cache does not hold it
C31_Witness ==
    \E t \in TaskIds :
        /\ tasks[t].pc = "await_synth"
        /\ tasks[t].text = "B"
        /\ "B" \notin tasks[t].cache
        /\ "B" \in audio_cache
        /\ pre.ret = "ok"

\* C32: while a play_audio closure runs, the permit that was acquired for it is
\* still held by its announce call: the call stands at the await of that
\* closure, it has neither returned nor been dropped.
C32_SlotHeldWhilePlaying ==
    \A t \in Playing : tasks[t].pc = "await_play"

\* the tasks that have called announce
Started == { t \in TaskIds : tasks[t].kind # "free" /\ hist[t].fired }

\* C33: once every call of announce that was started has returned or was
\* aborted, the playback slot is available and the synthesizer mutex is free.
C33_NoLeak ==
    (Started # {} /\ \A t \in Started : tasks[t].pc \in Terminal) =>
        /\ audio_semaphore = 1
        /\ synthesizer = 0

\* C35: a step that schedules timers leaves every pattern it does not schedule
\* alone: the registry entry of such a pattern, the time of its last schedule
\* and its timer tasks, asleep or announcing, are unchanged.
C35_OtherPatternsUntouched ==
    [][ntasks' > ntasks =>
          \A k \in Keys \ Scheduled :
              /\ active_timers'[k] = active_timers[k]
              /\ lastSched'[k] = lastSched[k]
              /\ \A t \in TaskIds :
                    (tasks[t].kind = "timer" /\ hist[t].key = k) =>
                       tasks'[t] = tasks[t] /\ hist'[t] = hist[t]]_vars

\* the timer of one pattern was asleep when another pattern was scheduled, and
\* has since fired and been played, while the other timer is registered
C35_Witness ==
    \E k, l \in Keys, t, u \in TaskIds :
        /\ k # l
        /\ running
        /\ active_timers[k] = t /\ active_timers[l] = u
        /\ lastSched[k] >= 0
        /\ lastSched[l] > lastSched[k]
        /\ hist[t].played /\ hist[t].cut = "none"
        /\ tasks[u].kind = "timer"

\* the announcement tasks of a text
Announcing(text) == { t \in TaskIds : tasks[t].kind = "imm" /\ tasks[t].text = text }

\* C37: every dispatched batch adds one announcement task for each text of its
\* immediate collection, whatever tasks of the same text exist already, are
\* waiting for the playback slot or are playing; nothing is remembered from one
\* batch to the next.
C37_DedupPerBatchOnly ==
    [][(batch.some /\ ~batch'.some) =>
          \A text \in Texts :
              Cardinality({ t \in TaskIds : tasks'[t].kind = "imm"
                                             /\ tasks'[t].text = text })
                = Cardinality(Announcing(text))
                    + (IF text \in Range(batch.immediate) THEN 1 ELSE 0)]_vars

\* the same line was read in as many batches as there are tasks: one
\* announcement plays and all the others wait for the playback slot
C37_Witness ==
    /\ Cardinality(Announcing("A")) = MaxTasks
    /\ Cardinality({ t \in Announcing("A") : tasks[t].pc = "await_permit" }) = MaxTasks - 1
    /\ Cardinality({ t \in Announcing("A") : tasks[t].job = "play_run" }) = 1
    /\ pos = MaxTasks

\* C36: the steps of a handover (the idle check that leaves the file, the scan
\* of the outer loop, the open of the other file) leave the registry of timers
\* and every timer task as they are; and a batch with a delayed match, read
\* from whichever file is open, cancels the timer registered for the pattern
\* and registers a new one.
C36_TimersSurviveHandover ==
    [][/\ (mon.pc \in {"idle", "scan", "open"} /\ mon' # mon) =>
             /\ active_timers' = active_timers
             /\ tasks' = tasks
             /\ hist' = hist
             /\ lastSched' = lastSched
       /\ (mon.pc = "batching" /\ mon'.pc = "read") =>
             \A k \in DOMAIN Keyed(timed_delay) :
                 /\ active_timers'[k] = ntasks'
                 /\ tasks'[ntasks'].pc = "sleep"
                 /\ active_timers[k] # 0 =>
                       tasks'[active_timers[k]].pc \in Terminal]_vars

\* a timer scheduled from the first file was asleep when the second file was
\* opened; the first line read from the second file has replaced it
C36_Witness ==
    \E t, u \in TaskIds :
        /\ mon.opens = 2
        /\ mon.offset = mon.open_len + 1
        /\ mon.pc = "read"
        /\ t < u
        /\ Timers(1, "p2") = {t, u}
        /\ hist[t].cut = "asleep"
        /\ active_timers["p2"] = u
        /\ tasks[u].pc = "sleep"

\* a timer scheduled from the first file has fired and was played after the
\* second file was opened, with no line read from the second file
C36_FiredWitness ==
    \E t \in TaskIds :
        /\ mon.opens = 2
        /\ mon.offset = mon.open_len
        /\ Timers(1, "p2") = {t}
        /\ active_timers["p2"] = t
        /\ hist[t].played

\* ---------------------------------------------------------------------------
\* The reader of process_one_batch over the bytes of the open file
\* ---------------------------------------------------------------------------

NL == "\n"

\* the bytes the game writes
Bytes == {"a", "b", NL}

\* the position of the first newline of s after position from, 0 when none
RECURSIVE NextNewline(_, _)
NextNewline(s, from) ==
    IF from >= Len(s) THEN 0
    ELSE IF s[from + 1] = NL THEN from + 1
    ELSE NextNewline(s, from + 1)

\* AsyncBufReadExt::read_line on a file read to `from`: the bytes up to and
\* including the next newline, or all the bytes to the end of the file when
\* no newline follows; empty at the end of the file
ReadLineAt(s, from) ==
    LET n == NextNewline(s, from)
    IN  IF n = 0 THEN SubSeq(s, from + 1, Len(s)) ELSE SubSeq(s, from + 1, n)

TailFrame ==
    /\ UNCHANGED pipeVars
    /\ UNCHANGED <<messages, file, pos, rd, immediate_set, timed_delay, batch,
                   seen, match_ret, scanVars, app>>

\* the game appends a byte to the open log
TailWrite(c) ==
    /\ tail.pc # "off"
    /\ Len(tail.stream) < MaxStream
    /\ tail' = [tail EXCEPT !.stream = Append(@, c)]
    /\ TailFrame

\* the first read_line of a batch returns Ok(0): nothing to read, Ok(None)
TailReadNone ==
    /\ tail.pc = "read"
    /\ ReadLineAt(tail.stream, tail.consumed) = <<>>
    /\ UNCHANGED tail
    /\ TailFrame

\* the first read_line of a batch returns bytes: they go to match_message
TailReadFirst ==
    /\ tail.pc = "read"
    /\ LET line == ReadLineAt(tail.stream, tail.consumed)
       IN  /\ line # <<>>
           /\ tail' = [tail EXCEPT !.consumed = @ + Len(line),
                                   !.passed = Append(@, line),
                                   !.pc = "batching"]
    /\ TailFrame

\* a timed read_line returns bytes: they go to match_message
TailReadNext ==
    /\ tail.pc = "batching"
    /\ LET line == ReadLineAt(tail.stream, tail.consumed)
       IN  /\ line # <<>>
           /\ tail' = [tail EXCEPT !.consumed = @ + Len(line),
                                   !.passed = Append(@, line)]
    /\ TailFrame

\* a timed read_line returns Ok(0): the batch ends
TailReadEof ==
    /\ tail.pc = "batching"
    /\ ReadLineAt(tail.stream, tail.consumed) = <<>>
    /\ tail' = [tail EXCEPT !.pc = "read"]
    /\ TailFrame

\* the timeout ends a timed read_line that has consumed nothing: the batch ends
TailReadTimeout ==
    /\ tail.pc = "batching"
    /\ tail' = [tail EXCEPT !.pc = "read"]
    /\ TailFrame

\* the timeout ends a timed read_line that has consumed the bytes up to the end
\* of the file and waits for the read that would find the end: the ReadLine
\* future is dropped with the bytes it holds, line_buffer stays empty
TailReadCut ==
    /\ tail.pc = "batching"
    /\ LET line == ReadLineAt(tail.stream, tail.consumed)
       IN  /\ line # <<>>
           /\ line[Len(line)] # NL
           /\ tail' = [tail EXCEPT !.consumed = @ + Len(line), !.pc = "read"]
    /\ TailFrame

TailInit ==
    /\ now = 0
    /\ running = FALSE
    /\ sessions = 0
    /\ active_timers = [k \in Keys |-> 0]
    /\ tasks = [t \in TaskIds |-> NoTask]
    /\ ntasks = 0
    /\ audio_semaphore = 1
    /\ synthesizer = 0
    /\ audio_cache = {}
    /\ monitor_cache = {}
    /\ pre = PreIdle
    /\ npre = 0
    /\ hist = [t \in TaskIds |-> NoHist]
    /\ lastSched = [k \in Keys |-> -1]
    /\ messages = <<>>
    /\ file = <<>>
    /\ pos = 0
    /\ rd = "idle"
    /\ immediate_set = <<>>
    /\ timed_delay = EmptyMap
    /\ batch = NoBatch
    /\ seen = <<>>
    /\ match_ret = NoMatch
    /\ dir = <<>>
    /\ found = NoFound
    /\ lens = [n \in {} |-> 0]
    /\ mon = MonOff
    /\ tail = [TailOff EXCEPT !.pc = "read"]
    /\ app = AppOff

TailNext ==
    \/ \E c \in Bytes : TailWrite(c)
    \/ TailReadNone
    \/ TailReadFirst
    \/ TailReadNext
    \/ TailReadEof
    \/ TailReadTimeout
    \/ TailReadCut

TailSpec == TailInit /\ [][TailNext]_vars

\* the complete lines among the first n bytes of s, in order
RECURSIVE CompleteLines(_, _, _)
CompleteLines(s, from, n) ==
    LET e == NextNewline(s, from)
    IN  IF e = 0 \/ e > n THEN <<>>
        ELSE <<SubSeq(s, from + 1, e)>> \o CompleteLines(s, e, n)

IsLine(x) == x # <<>> /\ x[Len(x)] = NL

\* C34: the complete lines given to the matcher are the complete lines of the
\* file that the reader has passed over, each once and in the order of the
\* file: no complete line is lost, split or given twice.
C34_EveryLineOnce ==
    SelectSeq(tail.passed, IsLine)
      = CompleteLines(tail.stream, 0, tail.consumed)

\* ---------------------------------------------------------------------------
\* The commands of the application: start_monitoring, stop_monitoring
\* ---------------------------------------------------------------------------

\* the commands that can be in progress at the same time
CmdIds == 1..MaxConcurrent

\* the monitoring tasks that tokio::spawn can create
MonIds == 1..MaxMonitors

NoCmd == [op |-> "none", pc |-> "none", ret |-> "none", handle |-> 0,
          wrote |-> FALSE]

\* the Err values of the two commands
Rejections == {"Already monitoring", "No configuration loaded",
               "TTS engine not initialized", "Not currently monitoring"}

\* a monitoring task that has not finished: running, or aborted and not yet
\* dropped by the runtime
Alive == {"live", "cancelling"}

\* JoinHandle::abort: a running task is marked for cancellation, a finished
\* task is left as it is
AbortHandle(st) == IF st = "live" THEN "cancelling" ELSE st

AppFrame ==
    /\ UNCHANGED pipeVars
    /\ UNCHANGED <<messages, file, pos, rd, immediate_set, timed_delay, batch,
                   seen, match_ret, scanVars, tail>>

\* load_config, save_config: the configuration is stored in the state
LoadConfig ==
    /\ ~app.config
    /\ app' = [app EXCEPT !.config = TRUE]
    /\ AppFrame

\* init_tts: the engine is stored in the state
InitTts ==
    /\ ~app.tts_engine
    /\ app' = [app EXCEPT !.tts_engine = TRUE]
    /\ AppFrame

\* the front end invokes a command
Invoke(c, op) ==
    /\ app.cmds[c].pc \in {"none", "done"}
    /\ app.ncmds < MaxCmds
    /\ app' = [app EXCEPT !.cmds[c] = [NoCmd EXCEPT !.op = op, !.pc = "check"],
                          !.ncmds = @ + 1]
    /\ AppFrame

\* start_monitoring: is_monitoring is set, Err("Already monitoring")
StartAlready(c) ==
    /\ app.cmds[c].op = "start"
    /\ app.cmds[c].pc = "check"
    /\ app.is_monitoring
    /\ app' = [app EXCEPT !.cmds[c].pc = "done",
                          !.cmds[c].ret = "Already monitoring"]
    /\ AppFrame

\* start_monitoring: is_monitoring is clear, go on to the configuration
StartCheck(c) ==
    /\ app.cmds[c].op = "start"
    /\ app.cmds[c].pc = "check"
    /\ ~app.is_monitoring
    /\ app' = [app EXCEPT !.cmds[c].pc = "config"]
    /\ AppFrame

\* start_monitoring: no configuration, Err("No configuration loaded")
StartNoConfig(c) ==
    /\ app.cmds[c].pc = "config"
    /\ ~app.config
    /\ app' = [app EXCEPT !.cmds[c].pc = "done",
                          !.cmds[c].ret = "No configuration loaded"]
    /\ AppFrame

\* start_monitoring: the configuration is cloned
StartConfig(c) ==
    /\ app.cmds[c].pc = "config"
    /\ app.config
    /\ app' = [app EXCEPT !.cmds[c].pc = "engine"]
    /\ AppFrame

\* start_monitoring: no engine, Err("TTS engine not initialized")
StartNoEngine(c) ==
    /\ app.cmds[c].pc = "engine"
    /\ ~app.tts_engine
    /\ app' = [app EXCEPT !.cmds[c].pc = "done",
                          !.cmds[c].ret = "TTS engine not initialized"]
    /\ AppFrame

\* start_monitoring: the engine is cloned, LogMonitor::new, tokio::spawn of
\* the monitoring task
StartSpawn(c) ==
    /\ app.cmds[c].pc = "engine"
    /\ app.tts_engine
    /\ app.spawned < MaxMonitors
    /\ app' = [app EXCEPT !.spawned = @ + 1,
                          !.monitors[app.spawned + 1] = "live",
                          !.cmds[c].handle = app.spawned + 1,
                          !.cmds[c].wrote = TRUE,
                          !.cmds[c].pc = "store_handle"]
    /\ AppFrame

\* start_monitoring: the handle is stored; the handle stored before is dropped,
\* its task goes on
StartStoreHandle(c) ==
    /\ app.cmds[c].pc = "store_handle"
    /\ app' = [app EXCEPT !.monitor_handle = app.cmds[c].handle,
                          !.cmds[c].pc = "set_flag"]
    /\ AppFrame

\* start_monitoring: is_monitoring.store(true), Ok(())
StartSetFlag(c) ==
    /\ app.cmds[c].pc = "set_flag"
    /\ app' = [app EXCEPT !.is_monitoring = TRUE,
                          !.cmds[c].pc = "done",
                          !.cmds[c].ret = "Ok"]
    /\ AppFrame

\* variant: a rejected stop_monitoring has taken the handle and aborted its
\* task before it looked at the flag
StopNotMonitoringAborts(c) ==
    /\ app.cmds[c].op = "stop"
    /\ app.cmds[c].pc = "check"
    /\ ~app.is_monitoring
    /\ app' = [app EXCEPT
                 !.monitors = [m \in MonIds |->
                                 IF m = app.monitor_handle THEN AbortHandle(@[m])
                                 ELSE @[m]],
                 !.monitor_handle = 0,
                 !.cmds[c].pc = "done",
                 !.cmds[c].ret = "Not currently monitoring"]
    /\ AppFrame

\* stop_monitoring: is_monitoring is clear, Err("Not currently monitoring")
StopNotMonitoring(c) ==
    /\ app.cmds[c].op = "stop"
    /\ app.cmds[c].pc = "check"
    /\ ~app.is_monitoring
    /\ app' = [app EXCEPT !.cmds[c].pc = "done",
                          !.cmds[c].ret = "Not currently monitoring"]
    /\ AppFrame

\* stop_monitoring: is_monitoring is set, go on to the handle
StopCheck(c) ==
    /\ app.cmds[c].op = "stop"
    /\ app.cmds[c].pc = "check"
    /\ app.is_monitoring
    /\ app' = [app EXCEPT !.cmds[c].pc = "take"]
    /\ AppFrame

\* stop_monitoring: the stored handle is taken and its task aborted, if there
\* is one
StopTake(c) ==
    /\ app.cmds[c].pc = "take"
    /\ app' = [app EXCEPT
                 !.monitors = [m \in MonIds |->
                                 IF m = app.monitor_handle THEN AbortHandle(@[m])
                                 ELSE @[m]],
                 !.monitor_handle = 0,
                 !.cmds[c].wrote = TRUE,
                 !.cmds[c].pc = "clear"]
    /\ AppFrame

\* stop_monitoring: is_monitoring.store(false), Ok(())
StopClear(c) ==
    /\ app.cmds[c].pc = "clear"
    /\ app' = [app EXCEPT !.is_monitoring = FALSE,
                          !.cmds[c].pc = "done",
                          !.cmds[c].ret = "Ok"]
    /\ AppFrame

\* the monitoring task: LogMonitor::start_monitoring returns an error, the
\* wrapper prints it and stores false in is_monitoring; no await lies between
\* the return and the store, so a task that was aborted while it ran this
\* stretch on another worker thread completes it
MonitorFails(m) ==
    /\ app.monitors[m] \in Alive
    /\ app' = [app EXCEPT !.monitors[m] = "ended", !.is_monitoring = FALSE]
    /\ AppFrame

\* the runtime drops an aborted monitoring task at its await
MonitorDropped(m) ==
    /\ app.monitors[m] = "cancelling"
    /\ app' = [app EXCEPT !.monitors[m] = "aborted"]
    /\ AppFrame

ShellInit ==
    /\ now = 0
    /\ running = FALSE
    /\ sessions = 0
    /\ active_timers = [k \in Keys |-> 0]
    /\ tasks = [t \in TaskIds |-> NoTask]
    /\ ntasks = 0
    /\ audio_semaphore = 1
    /\ synthesizer = 0
    /\ audio_cache = {}
    /\ monitor_cache = {}
    /\ pre = PreIdle
    /\ npre = 0
    /\ hist = [t \in TaskIds |-> NoHist]
    /\ lastSched = [k \in Keys |-> -1]
    /\ messages = <<>>
    /\ file = <<>>
    /\ pos = 0
    /\ rd = "idle"
    /\ immediate_set = <<>>
    /\ timed_delay = EmptyMap
    /\ batch = NoBatch
    /\ seen = <<>>
    /\ match_ret = NoMatch
    /\ dir = <<>>
    /\ found = NoFound
    /\ lens = [n \in {} |-> 0]
    /\ mon = MonOff
    /\ tail = TailOff
    /\ app = [AppOff EXCEPT !.monitors = [m \in MonIds |-> "none"],
                            !.cmds = [c \in CmdIds |-> NoCmd]]

ShellNext ==
    \/ LoadConfig
    \/ InitTts
    \/ \E c \in CmdIds, op \in {"start", "stop"} : Invoke(c, op)
    \/ \E c \in CmdIds : StartAlready(c)
    \/ \E c \in CmdIds : StartCheck(c)
    \/ \E c \in CmdIds : StartNoConfig(c)
    \/ \E c \in CmdIds : StartConfig(c)
    \/ \E c \in CmdIds : StartNoEngine(c)
    \/ \E c \in CmdIds : StartSpawn(c)
    \/ \E c \in CmdIds : StartStoreHandle(c)
    \/ \E c \in CmdIds : StartSetFlag(c)
    \/ \E c \in CmdIds : StopNotMonitoring(c)
    \/ \E c \in CmdIds : StopCheck(c)
    \/ \E c \in CmdIds : StopTake(c)
    \/ \E c \in CmdIds : StopClear(c)
    \/ \E m \in MonIds : MonitorFails(m)
    \/ \E m \in MonIds : MonitorDropped(m)

ShellSpec == ShellInit /\ [][ShellNext]_vars

\* the monitoring tasks that run and were not aborted
LiveMonitors == { m \in MonIds : app.monitors[m] = "live" }

\* no command is in progress
Quiescent == \A c \in CmdIds : app.cmds[c].pc \in {"none", "done"}

\* C38: there are never two live monitoring tasks, and a live monitoring task
\* is the one whose handle is stored in the state, or the one its
\* start_monitoring is about to store.
C38_OneMonitor ==
    /\ Cardinality(LiveMonitors) <= 1
    /\ \A m \in LiveMonitors :
          \/ app.monitor_handle = m
          \/ \E c \in CmdIds : /\ app.cmds[c].pc = "store_handle"
                               /\ app.cmds[c].handle = m

\* C39: when no command is in progress, is_monitoring is true exactly when a
\* monitoring task runs.
C39_FlagAgrees ==
    Quiescent => (app.is_monitoring <=> LiveMonitors # {})

\* C40: a step in which a command returns an error leaves is_monitoring, the
\* stored handle and the monitoring tasks as they are, and the command has
\* changed none of them before; start_monitoring returns an error when the
\* flag is set, when no configuration is loaded and when no engine is
\* initialized, stop_monitoring when the flag is clear.
C40_RejectedChangesNothing ==
    [][\A c \in CmdIds :
          /\ (app.cmds[c].ret = "none" /\ app'.cmds[c].ret \in Rejections) =>
                /\ app'.is_monitoring = app.is_monitoring
                /\ app'.monitor_handle = app.monitor_handle
                /\ app'.monitors = app.monitors
                /\ app'.spawned = app.spawned
                /\ ~app.cmds[c].wrote
          /\ (app.cmds[c].pc = "check" /\ app'.cmds[c] # app.cmds[c]) =>
                /\ (app.cmds[c].op = "start" /\ app.is_monitoring) =>
                      app'.cmds[c].ret = "Already monitoring"
                /\ (app.cmds[c].op = "stop" /\ ~app.is_monitoring) =>
                      app'.cmds[c].ret = "Not currently monitoring"
          /\ (app.cmds[c].pc = "config" /\ app'.cmds[c] # app.cmds[c]
                /\ ~app.config) =>
                app'.cmds[c].ret = "No configuration loaded"
          /\ (app.cmds[c].pc = "engine" /\ app'.cmds[c] # app.cmds[c]
                /\ ~app.tts_engine) =>
                app'.cmds[c].ret = "TTS engine not initialized"]_vars

\* a stop_monitoring was rejected while a handle was stored and a
\* start_monitoring was rejected afterwards: the task of the handle is live,
\* the handle is stored and the flag is set
C40_Witness ==
    /\ app.cmds[1].ret = "Not currently monitoring"
    /\ app.cmds[2].ret = "Already monitoring"
    /\ app.is_monitoring
    /\ app.monitor_handle # 0
    /\ app.monitors[app.monitor_handle] = "live"
    /\ app.spawned = 1

====
